---- MODULE Spec2Model ----
(***************************************************************************)
(* The real-time event pipeline of the FactoryFlow backend:                *)
(*   - the WebSocket hub (package websocket): Hub.Run, the Broadcast*      *)
(*     publishers, the per-client pumps;                                   *)
(*   - the driver loop of main (persist, analyze, broadcast);              *)
(*   - the anomaly detector (package services): AnalyzeEvent and its       *)
(*     threshold, trend and pattern checks over a per-machine window.      *)
(* Physical quantities are integers: conveyor speed in tenths of m/s,      *)
(* temperature and angle in whole degrees, time in whole seconds.          *)
(***************************************************************************)
EXTENDS Integers, Sequences, FiniteSets, TLC

\* ------------------------------------------------------------------ bounds
\* Mailbox capacities explored: 1..MaxCap (the source makes every mailbox
\* with capacity 256; the hub's code is the same for every capacity).
MaxCap == 2
\* Publish calls (of all callers together) in SpecHub.
MaxPub == 2
\* Events the driver loop receives in SpecDriver.
MaxEvents == 2
\* Ticks of the statistics timer in SpecDriver.
MaxTicks == 1
\* AnalyzeEvent calls in SpecThreshold.
MaxAnalyze == 1
\* SpecPattern: AnalyzeEvent calls on the one machine, and faults among them.
MaxPatternEvents == 21
MaxFaults == 3
\* SpecTemperature and SpecSpeed: AnalyzeEvent calls on the one machine.
MaxTemperatureEvents == 6
MaxSpeedEvents == 11
\* SpecWindow: the capacity of the window and the Add calls on it.
MaxWindow == 3
MaxAdds == 7
MaxMessages == 3
EventChannelCap == 2
ErrorChannelCap == 1
MaxSpins == 1

Clients == {"c1", "c2"}
Callers == {"driver", "timer"}
TopicSets == {{"alert"}}

NoMsg == [type |-> "none", from |-> "none", seq |-> 0]
NoClient == "none"

VARIABLES
    \* ---- Hub (websocket.Hub, websocket.Client)
    chanCap,     \* capacity given to make(chan []byte, N) for client.send
    clients,     \* h.clients: the registry
    send,        \* client.send: the mailbox of each client, oldest first
    closed,      \* whether client.send has been closed
    subscribed,  \* client.subscribed: the topic set of each client
    clPc,        \* where each connection is: idle, running, gone
    hubPc,       \* where Run is: loop, select, welcome, broadcast
    hubMsg,      \* the message Run took from h.broadcast
    hubIter,     \* the clients the range loop of the broadcast case has still to visit
    hubClient,   \* the client Run took from h.register
    pubCount,    \* publish calls made so far, per caller
    drained,     \* observation: whether writePump ever took a message from the mailbox
    \* ---- AnomalyDetector (services.AnomalyDetector)
    thresholds,     \* ad.thresholds
    slidingWindow,  \* ad.slidingWindow: machine id -> SlidingWindow
    analyzed,       \* the event given to the latest AnalyzeEvent call
    raised,         \* the alerts that call handed to alertCallback, in order
    \* ---- the driver loop and the statistics timer of main
    drvPc,       \* where the driver loop is: recv, callback, broadcast
    pending,     \* alerts of the event in hand not yet handed to alertCallback
    drvOps,      \* what the loop has done for the event in hand, in order
    nRecv,       \* events the loop has received
    nTicks,      \* ticks the statistics timer has served
    \* ---- a SlidingWindow on its own (services.SlidingWindow) and its callers
    ring,        \* the window
    added,       \* the events given to Add so far, in order
    slice,       \* the slice an earlier GetEvents call returned
    sliceSeen,   \* what that slice held when it was returned
    recent,      \* the result of GetRecentEvents(n) on the window as it is now
    \* ---- callers of the detector's threshold and statistics methods (handlers.Handler)
    gotThresholds,  \* what the latest GetThresholds call returned
    updatedSince,   \* whether UpdateThresholds was called after that call
    stats,          \* what the latest GetMachineStats call returned
    replied,        \* what the thresholds handlers answered last: none, StatusOK,
                    \* or the error of a StatusBadRequest
    \* ---- the wall clock and the names HandleWebSocket gives to connections
    now,         \* time.Now().UnixNano(), counted from the start of the process
    id,          \* client.id of each connection
    \* ---- main, and the connection and write pump of each client
    mainPc,      \* where main is: serving, stopping, closing, exited
    connLost,    \* whether reads and writes on c.conn fail from now on
    wpPc,        \* where writePump is: idle, running, done
    \* ---- the two mutexes: ad.mutex of the detector and h.mutex of the hub
    adMutex,     \* ad.mutex: free, or the method that holds it
    adStage,     \* where the AnalyzeEvent call that holds it is: none, speed,
                 \* temperature, angle, rest
    used,        \* ad.thresholds as each comparison of that call read it, in order
    counting,    \* whether a GetClientCount call holds the read lock of h.mutex
    \* ---- the Kafka consumer (kafka.Consumer) and the broker it reads
    cnsPc,          \* where the ingestion goroutine is: new, select, read, done
    stopChannel,    \* c.stopChannel: the stop signals waiting in it (capacity 1)
    consumerClosed, \* whether Stop has called c.consumer.Close()
    eventChannel,   \* c.eventChannel: the events waiting in it, oldest first
    errorChannel,   \* c.errorChannel: the errors waiting in it, oldest first
    chClosed,       \* whether the goroutine has closed the two channels
    delivered,      \* messages ReadMessage has returned so far
    lastMsg,        \* what the latest ReadMessage call returned
    nSpins          \* receives of the driver loop that found its channel closed

hubVars == <<chanCap, clients, send, closed, subscribed, clPc, hubPc, hubMsg,
             hubIter, hubClient, pubCount, drained>>

detVars == <<thresholds, slidingWindow, analyzed, raised>>

drvVars == <<drvPc, pending, drvOps, nRecv, nTicks>>

libVars == <<ring, added, slice, sliceSeen, recent>>

apiVars == <<gotThresholds, updatedSince, stats, replied>>

idVars == <<now, id>>

pumpVars == <<connLost, wpPc>>

syncVars == <<adMutex, adStage, used, counting>>

extVars == <<idVars, mainPc, pumpVars, syncVars>>

cnsVars == <<cnsPc, stopChannel, consumerClosed, eventChannel, errorChannel,
             chClosed, delivered, lastMsg, nSpins>>

vars == <<hubVars, detVars, drvVars, libVars, apiVars, extVars, cnsVars>>

\* ------------------------------------------------------------------ Hub

\* NewHub, and go wsHub.Run(): the registry is empty, the three hub channels are
\* unbuffered, and Run has not yet parked in its select.
NewHub ==
    /\ chanCap \in 1..MaxCap
    /\ clients = {}
    /\ send = [c \in Clients |-> <<>>]
    /\ closed = [c \in Clients |-> FALSE]
    /\ subscribed = [c \in Clients |-> {}]
    /\ clPc = [c \in Clients |-> "idle"]
    /\ hubPc = "loop"
    /\ hubMsg = NoMsg
    /\ hubIter = {}
    /\ hubClient = NoClient
    /\ pubCount = [p \in Callers |-> 0]
    /\ drained = [c \in Clients |-> FALSE]

\* A send that puts the message at the front of the buffer.
EnqueueFront(box, m) == <<m>> \o box

\* The non-blocking send of Run on a client mailbox: the mailbox after
\* "select { case client.send <- m: default: }" when the send case is taken.
Enqueue(box, m) == Append(box, m)

\* A room test that never refuses.
HasRoomAlways(c) == c \in Clients

\* A room test that is one slot too generous.
HasRoomOffByOne(c) == Len(send[c]) <= chanCap

\* Whether "case client.send <- m" can proceed (buffer not full).
HasRoom(c) == Len(send[c]) < chanCap

\* The welcome notice of the register case.
Welcome(c) == [type |-> "connection", from |-> "hub", seq |-> 0]

\* Run reaches its select statement and parks there.
RunSelect ==
    /\ hubPc = "loop"
    /\ hubPc' = "select"
    /\ UNCHANGED <<chanCap, clients, send, closed, subscribed, clPc, hubMsg,
                   hubIter, hubClient, pubCount, drained>>
    /\ UNCHANGED <<detVars, drvVars, libVars, apiVars, extVars, cnsVars>>

\* One second of the wall clock, in the nanoseconds time.Now().UnixNano() counts.
NanosPerSecond == 1000000000

\* The residues time.Now().UnixNano()%1000 can take.
SuffixRange == 1000

\* generateClientID: the time of day to the second (layout "20060102150405"),
\* a dash, and the one rune whose code point is the nanosecond count modulo
\* 1000. t1 is the clock reading of the first time.Now() and t2 that of the
\* second. The pair stands for the string: two strings are equal exactly when
\* the seconds and the code points are.
generateClientID(t1, t2) == <<t1 \div NanosPerSecond, t2 % SuffixRange>>

\* The id of a connection HandleWebSocket has not yet made.
NoID == <<-1, -1>>

\* HandleWebSocket and the first half of "case client := <-h.register": the
\* client is made with a generated id, an empty mailbox and an empty topic set,
\* its blocking send on the unbuffered h.register completes when Run is parked
\* in its select, Run inserts it under the write lock, and HandleWebSocket
\* starts the two pumps. Both clock readings of generateClientID fall on the
\* same nanosecond here.
HandleWebSocket(c) ==
    /\ clPc[c] = "idle"
    /\ hubPc = "select"
    /\ ~counting
    /\ id' = [id EXCEPT ![c] = generateClientID(now, now)]
    /\ wpPc' = [wpPc EXCEPT ![c] = "running"]
    /\ send' = [send EXCEPT ![c] = <<>>]
    /\ subscribed' = [subscribed EXCEPT ![c] = {}]
    /\ clients' = clients \cup {c}
    /\ clPc' = [clPc EXCEPT ![c] = "running"]
    /\ hubPc' = "welcome"
    /\ hubClient' = c
    /\ UNCHANGED <<chanCap, closed, hubMsg, hubIter, pubCount, drained>>
    /\ UNCHANGED <<detVars, drvVars, libVars, apiVars, now, mainPc, connLost, syncVars, cnsVars>>

\* case client := <-h.register, second half: the non-blocking send of the welcome
\* notice; a full mailbox closes the mailbox and removes the client.
\* A register case that closes the mailbox the welcome does not fit in and
\* leaves the client in the registry.
RunWelcomeKeepsClient ==
    /\ hubPc = "welcome"
    /\ LET c == hubClient IN
        IF HasRoom(c)
        THEN /\ send' = [send EXCEPT ![c] = Enqueue(@, Welcome(c))]
             /\ UNCHANGED <<closed, clients>>
        ELSE /\ closed' = [closed EXCEPT ![c] = TRUE]
             /\ UNCHANGED <<clients, send>>
    /\ hubPc' = "loop"
    /\ hubClient' = NoClient
    /\ UNCHANGED <<chanCap, subscribed, clPc, hubMsg, hubIter, pubCount, drained>>
    /\ UNCHANGED <<detVars, drvVars, libVars, apiVars, extVars, cnsVars>>

RunWelcome ==
    /\ hubPc = "welcome"
    /\ LET c == hubClient IN
        IF HasRoom(c)
        THEN /\ send' = [send EXCEPT ![c] = Enqueue(@, Welcome(c))]
             /\ UNCHANGED <<closed, clients>>
        ELSE /\ closed' = [closed EXCEPT ![c] = TRUE]
             /\ clients' = clients \ {c}
             /\ UNCHANGED send
    /\ hubPc' = "loop"
    /\ hubClient' = NoClient
    /\ UNCHANGED <<chanCap, subscribed, clPc, hubMsg, hubIter, pubCount, drained>>
    /\ UNCHANGED <<detVars, drvVars, libVars, apiVars, extVars, cnsVars>>

\* An unregister case that removes the client and leaves its mailbox open.
RunUnregisterLeavesOpen(c) ==
    /\ hubPc = "select"
    /\ clPc[c] = "running"
    /\ clients' = clients \ {c}
    /\ clPc' = [clPc EXCEPT ![c] = "gone"]
    /\ hubPc' = "loop"
    /\ UNCHANGED <<chanCap, send, closed, subscribed, hubMsg, hubIter, hubClient,
                   pubCount, drained>>
    /\ UNCHANGED <<detVars, drvVars, libVars, apiVars, extVars, cnsVars>>

\* readPump leaves its loop (read error, read deadline, peer closed) and its
\* deferred blocking send on the unbuffered h.unregister completes when Run is
\* parked in its select; "case client := <-h.unregister": a client still in the
\* registry is removed and its mailbox closed.
RunUnregister(c) ==
    /\ hubPc = "select"
    /\ clPc[c] = "running"
    /\ ~counting
    /\ IF c \in clients
       THEN /\ clients' = clients \ {c}
            /\ closed' = [closed EXCEPT ![c] = TRUE]
       ELSE UNCHANGED <<clients, closed>>
    /\ clPc' = [clPc EXCEPT ![c] = "gone"]
    /\ hubPc' = "loop"
    /\ UNCHANGED <<chanCap, send, subscribed, hubMsg, hubIter, hubClient,
                   pubCount, drained>>
    /\ UNCHANGED <<detVars, drvVars, libVars, apiVars, extVars, cnsVars>>

\* writePump takes the oldest message of the mailbox and writes it to the
\* connection.
WritePump(c) ==
    /\ clPc[c] \in {"running", "gone"}
    /\ wpPc[c] = "running"
    /\ ~connLost[c]
    /\ Len(send[c]) > 0
    /\ send' = [send EXCEPT ![c] = Tail(@)]
    /\ drained' = [drained EXCEPT ![c] = TRUE]
    /\ UNCHANGED <<chanCap, clients, closed, subscribed, clPc, hubPc, hubMsg,
                   hubIter, hubClient, pubCount>>
    /\ UNCHANGED <<detVars, drvVars, libVars, apiVars, extVars, cnsVars>>

\* The connection of c breaks: the peer is gone or stops answering the pings,
\* so that ReadMessage fails (at the latest when the read deadline passes) and
\* every write fails.
ConnFail(c) ==
    /\ clPc[c] = "running"
    /\ ~connLost[c]
    /\ connLost' = [connLost EXCEPT ![c] = TRUE]
    /\ UNCHANGED <<idVars, mainPc, wpPc, syncVars>>
    /\ UNCHANGED <<hubVars, detVars, drvVars, libVars, apiVars, cnsVars>>

\* writePump returns: it found the mailbox closed and empty, or a write of a
\* message or of the periodic ping failed because the connection is broken
\* or readPump has closed it. Its deferred call closes the connection.
WritePumpExit(c) ==
    /\ wpPc[c] = "running"
    /\ \/ closed[c] /\ send[c] = <<>>
       \/ connLost[c]
       \/ clPc[c] = "gone"
    /\ wpPc' = [wpPc EXCEPT ![c] = "done"]
    /\ connLost' = [connLost EXCEPT ![c] = TRUE]
    /\ UNCHANGED <<idVars, mainPc, syncVars>>
    /\ UNCHANGED <<hubVars, detVars, drvVars, libVars, apiVars, cnsVars>>

\* The pong reply of handleMessage.
Pong(c) == [type |-> "pong", from |-> c, seq |-> 0]

\* The process has died of a run-time panic: no goroutine runs any more.
Crashed == hubPc = "panic"

\* handleMessage, case "ping", reached from readPump: a non-blocking send of
\* the pong reply on the client's own mailbox; a full mailbox drops the reply.
\* A send on a mailbox that Run has closed panics, default case or not, and
\* the panic ends the process.
handlePing(c) ==
    /\ clPc[c] = "running"
    /\ IF closed[c]
       THEN /\ hubPc' = "panic"
            /\ clPc' = [d \in Clients |-> "panic"]
            /\ UNCHANGED send
       ELSE /\ send' = [send EXCEPT ![c] = IF HasRoom(c) THEN Enqueue(@, Pong(c)) ELSE @]
            /\ UNCHANGED <<hubPc, clPc>>
    /\ UNCHANGED <<chanCap, clients, closed, subscribed, hubMsg, hubIter,
                   hubClient, pubCount, drained>>
    /\ UNCHANGED <<detVars, drvVars, libVars, apiVars, extVars, cnsVars>>

\* Client.subscribe, reached from readPump through handleMessage.
subscribe(c, topics) ==
    /\ clPc[c] = "running"
    /\ subscribed' = [subscribed EXCEPT ![c] = @ \cup topics]
    /\ UNCHANGED <<chanCap, clients, send, closed, clPc, hubPc, hubMsg, hubIter,
                   hubClient, pubCount, drained>>
    /\ UNCHANGED <<detVars, drvVars, libVars, apiVars, extVars, cnsVars>>

\* Client.unsubscribe, reached from readPump through handleMessage.
unsubscribe(c, topics) ==
    /\ clPc[c] = "running"
    /\ subscribed' = [subscribed EXCEPT ![c] = @ \ topics]
    /\ UNCHANGED <<chanCap, clients, send, closed, clPc, hubPc, hubMsg, hubIter,
                   hubClient, pubCount, drained>>
    /\ UNCHANGED <<detVars, drvVars, libVars, apiVars, extVars, cnsVars>>

\* Client.isSubscribed.
isSubscribed(c, topic) == topic \in subscribed[c]

\* The body shared by BroadcastEvent, BroadcastAlert and BroadcastStats: build
\* the message, then a non-blocking send on the unbuffered h.broadcast. The send
\* case is taken only when Run is parked in its select; otherwise the default
\* case drops the message.
Publish(p, t) ==
    LET m == [type |-> t, from |-> p, seq |-> pubCount[p] + 1]
        taken == hubPc = "select"
    IN  /\ pubCount' = [pubCount EXCEPT ![p] = @ + 1]
        /\ IF taken
           THEN /\ hubPc' = "broadcast"
                /\ hubMsg' = m
                /\ hubIter' = clients
           ELSE UNCHANGED <<hubPc, hubMsg, hubIter>>
        /\ UNCHANGED <<chanCap, clients, send, closed, subscribed, clPc,
                       hubClient, drained>>

BroadcastEvent(p) == Publish(p, "sensor_event")
BroadcastAlert(p) == Publish(p, "alert")
BroadcastStats(p) == Publish(p, "stats")

\* A broadcast iteration that waits for room in the mailbox instead of dropping.
RunBroadcastStepBlocking ==
    /\ hubPc = "broadcast"
    /\ hubIter # {}
    /\ \E c \in hubIter :
        /\ HasRoom(c)
        /\ send' = [send EXCEPT ![c] = Append(@, hubMsg)]
        /\ hubIter' = hubIter \ {c}
    /\ UNCHANGED <<chanCap, clients, closed, subscribed, clPc, hubPc, hubMsg,
                   hubClient, pubCount, drained>>
    /\ UNCHANGED <<detVars, drvVars, libVars, apiVars, extVars, cnsVars>>

\* case message := <-h.broadcast, one iteration of "for client := range
\* h.clients": a non-blocking send on the client's mailbox; a full mailbox closes
\* the mailbox and deletes the client. The map is visited in no fixed order.
RunBroadcastStep ==
    /\ hubPc = "broadcast"
    /\ hubIter # {}
    /\ \E c \in hubIter :
        /\ IF HasRoom(c)
           THEN /\ send' = [send EXCEPT ![c] = Enqueue(@, hubMsg)]
                /\ UNCHANGED <<closed, clients>>
           ELSE /\ closed' = [closed EXCEPT ![c] = TRUE]
                /\ clients' = clients \ {c}
                /\ UNCHANGED send
        /\ hubIter' = hubIter \ {c}
    /\ UNCHANGED <<chanCap, subscribed, clPc, hubPc, hubMsg, hubClient,
                   pubCount, drained>>
    /\ UNCHANGED <<detVars, drvVars, libVars, apiVars, extVars, cnsVars>>

\* The range loop of the broadcast case is over: RUnlock, back to the for loop.
RunBroadcastDone ==
    /\ hubPc = "broadcast"
    /\ hubIter = {}
    /\ hubPc' = "loop"
    /\ hubMsg' = NoMsg
    /\ UNCHANGED <<chanCap, clients, send, closed, subscribed, clPc, hubIter,
                   hubClient, pubCount, drained>>
    /\ UNCHANGED <<detVars, drvVars, libVars, apiVars, extVars, cnsVars>>

TotalPub == pubCount["driver"] + pubCount["timer"]

\* ------------------------------------------------------------------ AnomalyDetector

\* NewSlidingWindow(50) in AnalyzeEvent.
WindowSize == 50


\* additional_data["description"]: absent, a string, or a value of another type.
NoDescription == [present |-> FALSE, isString |-> FALSE, text |-> ""]

\* The nil *SensorEvent of an unused window slot.
NoEvent ==
    [Timestamp |-> 0, MachineID |-> "", ConveyorSpeed |-> 0, Temperature |-> 0,
     RobotArmAngle |-> 0, Status |-> "", EventType |-> "",
     Description |-> NoDescription]

\* The thresholds NewAnomalyDetector installs: 0.1..3.5 m/s, 15..85 C, 0..180 deg.
DefaultThresholds ==
    [ConveyorSpeedMin |-> 1, ConveyorSpeedMax |-> 35,
     TemperatureMin |-> 15, TemperatureMax |-> 85,
     RobotAngleMin |-> 0, RobotAngleMax |-> 180]

\* NewSlidingWindow. events holds the slots written so far, slot 0 first: the
\* slots of the array behind them are nil and no method reads them, because
\* GetEvents stops at position until the window is full.
NewSlidingWindow(maxSize) ==
    [events |-> <<>>, maxSize |-> maxSize, position |-> 0, full |-> FALSE]

\* sw.events[sw.position] = event
SetSlot(events, position, event) ==
    IF position < Len(events)
    THEN [events EXCEPT ![position + 1] = event]
    ELSE Append(events, event)

\* SlidingWindow.Add
Add(sw, event) ==
    LET pos == (sw.position + 1) % sw.maxSize
    IN  [sw EXCEPT !.events = SetSlot(sw.events, sw.position, event),
                   !.position = pos,
                   !.full = sw.full \/ pos = 0]

\* A GetEvents that copies the slots from slot 0 on, whatever the position.
GetEventsUnrotated(sw) ==
    IF ~sw.full
    THEN [i \in 1..sw.position |-> sw.events[i]]
    ELSE [i \in 1..sw.maxSize |-> sw.events[i]]

\* SlidingWindow.GetEvents, as the sequence of the events it returns.
GetEvents(sw) ==
    IF ~sw.full
    THEN [i \in 1..sw.position |-> sw.events[i]]
    ELSE [i \in 1..sw.maxSize |-> sw.events[((sw.position + (i - 1)) % sw.maxSize) + 1]]

\* A GetRecentEvents that cuts from the old end.
GetRecentEventsOldest(sw, n) ==
    LET events == GetEvents(sw)
    IN  IF n >= Len(events) THEN events ELSE SubSeq(events, 1, n)

\* SlidingWindow.GetRecentEvents
GetRecentEvents(sw, n) ==
    LET events == GetEvents(sw)
    IN  IF n >= Len(events)
        THEN events
        ELSE SubSeq(events, Len(events) - n + 1, Len(events))

\* The slice GetEvents returns. Until the window is full it is
\* sw.events[:sw.position], which shares the array of the window; once full it
\* is a new array filled by the loop.
NoSlice == [shared |-> FALSE, len |-> 0, copy |-> <<>>]
GetEventsSlice(sw) ==
    IF ~sw.full
    THEN [shared |-> TRUE, len |-> sw.position, copy |-> <<>>]
    ELSE [shared |-> FALSE, len |-> sw.maxSize, copy |-> GetEvents(sw)]

\* What a caller reads in a slice GetEvents returned, given the window now.
ReadSlice(sl, sw) ==
    IF sl.shared THEN [i \in 1..sl.len |-> sw.events[i]] ELSE sl.copy

\* No GetRecentEvents result at hand.
NoRecent == [n |-> -1, events |-> <<>>]

\* A window not in use.
LibStart ==
    /\ ring = NewSlidingWindow(1)
    /\ added = <<>>
    /\ slice = NoSlice
    /\ sliceSeen = <<>>
    /\ recent = NoRecent

\* sw.Add(event) by a caller; the events are numbered in the order they are added.
AddCall ==
    /\ Len(added) < MaxAdds
    /\ ring' = Add(ring, Len(added) + 1)
    /\ added' = Append(added, Len(added) + 1)
    /\ recent' = NoRecent
    /\ UNCHANGED <<slice, sliceSeen>>
    /\ UNCHANGED <<hubVars, detVars, drvVars, apiVars, extVars, cnsVars>>

\* s := sw.GetEvents() by a caller that keeps s.
GetEventsCall ==
    /\ slice' = GetEventsSlice(ring)
    /\ sliceSeen' = GetEvents(ring)
    /\ UNCHANGED <<ring, added, recent>>
    /\ UNCHANGED <<hubVars, detVars, drvVars, apiVars, extVars, cnsVars>>

\* sw.GetRecentEvents(n) by a caller.
GetRecentEventsCall(n) ==
    /\ recent' = [n |-> n, events |-> GetRecentEvents(ring, n)]
    /\ UNCHANGED <<ring, added, slice, sliceSeen>>
    /\ UNCHANGED <<hubVars, detVars, drvVars, apiVars, extVars, cnsVars>>

\* fmt.Sprintf: the message is kept as the pieces the format puts together.
Alert(alertType, severity, message) ==
    [AlertType |-> alertType, Severity |-> severity, Message |-> message]

\* A speed check that takes the maximum itself as out of range.
speedCheckHalfOpen(th, event) ==
    IF event.ConveyorSpeed < th.ConveyorSpeedMin
    THEN <<[AlertType |-> "conveyor_speed_low", Severity |-> "high",
            Message |-> <<"Conveyor speed below minimum threshold",
                          ToString(event.ConveyorSpeed),
                          ToString(th.ConveyorSpeedMin)>>]>>
    ELSE IF event.ConveyorSpeed >= th.ConveyorSpeedMax
    THEN <<[AlertType |-> "conveyor_speed_high", Severity |-> "high",
            Message |-> <<"Conveyor speed above maximum threshold",
                          ToString(event.ConveyorSpeed),
                          ToString(th.ConveyorSpeedMax)>>]>>
    ELSE <<>>

\* A temperature check that rates both directions high.
temperatureCheckAllHigh(th, event) ==
    IF event.Temperature < th.TemperatureMin
    THEN <<[AlertType |-> "temperature_low", Severity |-> "high",
            Message |-> <<"Temperature below minimum threshold",
                          ToString(event.Temperature),
                          ToString(th.TemperatureMin)>>]>>
    ELSE IF event.Temperature > th.TemperatureMax
    THEN <<[AlertType |-> "temperature_high", Severity |-> "high",
            Message |-> <<"Temperature above maximum threshold",
                          ToString(event.Temperature),
                          ToString(th.TemperatureMax)>>]>>
    ELSE <<>>

\* A status check that never looks at the description.
statusCheckNoDescription(event) ==
    IF event.Status = "fault"
    THEN <<[AlertType |-> event.EventType, Severity |-> "high",
            Message |-> <<"Machine fault detected", event.EventType>>]>>
    ELSE IF event.Status = "warning"
    THEN <<[AlertType |-> event.EventType, Severity |-> "medium",
            Message |-> <<"Warning condition", event.EventType>>]>>
    ELSE <<>>

\* detectThresholdViolations, "Check conveyor speed".
speedCheck(th, event) ==
    IF event.ConveyorSpeed < th.ConveyorSpeedMin
    THEN <<Alert("conveyor_speed_low", "high",
                 <<"Conveyor speed below minimum threshold",
                   ToString(event.ConveyorSpeed), ToString(th.ConveyorSpeedMin)>>)>>
    ELSE IF event.ConveyorSpeed > th.ConveyorSpeedMax
    THEN <<Alert("conveyor_speed_high", "high",
                 <<"Conveyor speed above maximum threshold",
                   ToString(event.ConveyorSpeed), ToString(th.ConveyorSpeedMax)>>)>>
    ELSE <<>>

\* detectThresholdViolations, "Check temperature".
temperatureCheck(th, event) ==
    IF event.Temperature < th.TemperatureMin
    THEN <<Alert("temperature_low", "medium",
                 <<"Temperature below minimum threshold",
                   ToString(event.Temperature), ToString(th.TemperatureMin)>>)>>
    ELSE IF event.Temperature > th.TemperatureMax
    THEN <<Alert("temperature_high", "high",
                 <<"Temperature above maximum threshold",
                   ToString(event.Temperature), ToString(th.TemperatureMax)>>)>>
    ELSE <<>>

\* detectThresholdViolations, "Check robot arm angle".
angleCheck(th, event) ==
    IF event.RobotArmAngle < th.RobotAngleMin \/ event.RobotArmAngle > th.RobotAngleMax
    THEN <<Alert("robot_angle_invalid", "medium",
                 <<"Robot arm angle out of valid range",
                   ToString(event.RobotArmAngle), ToString(th.RobotAngleMin),
                   ToString(th.RobotAngleMax)>>)>>
    ELSE <<>>

\* detectThresholdViolations, "Process status-based alerts". The type assertion
\* .(string) succeeds only for a description that is present and a string.
statusCheck(event) ==
    IF event.Status = "fault"
    THEN <<Alert(event.EventType, "high",
                 IF event.Description.present /\ event.Description.isString
                 THEN <<"Machine fault", event.Description.text>>
                 ELSE <<"Machine fault detected", event.EventType>>)>>
    ELSE IF event.Status = "warning"
    THEN <<Alert(event.EventType, "medium", <<"Warning condition", event.EventType>>)>>
    ELSE <<>>

\* detectThresholdViolations: the alerts it hands to alertCallback, in order
\* (main always installs a callback).
detectThresholdViolations(th, event) ==
    speedCheck(th, event) \o temperatureCheck(th, event)
        \o angleCheck(th, event) \o statusCheck(event)

\* A rate check that measures from the oldest of the events it is given.
detectRapidTemperatureChangeOldest(events) ==
    IF Len(events) < 5
    THEN FALSE
    ELSE LET tempChange == events[Len(events)].Temperature - events[1].Temperature
             timeSpan == events[Len(events)].Timestamp - events[1].Timestamp
         IN  IF timeSpan > 0
             THEN tempChange > 2 * timeSpan \/ tempChange < -(2 * timeSpan)
             ELSE FALSE

\* detectRapidTemperatureChange. Temperatures are whole degrees and times whole
\* seconds, so tempChange / timeSpan > 2.0 is tempChange > 2 * timeSpan.
detectRapidTemperatureChange(events) ==
    IF Len(events) < 5
    THEN FALSE
    ELSE LET tempChange == events[Len(events)].Temperature
                            - events[Len(events) - 4].Temperature
             timeSpan == events[Len(events)].Timestamp
                            - events[Len(events) - 4].Timestamp
         IN  IF timeSpan > 0
             THEN tempChange > 2 * timeSpan \/ tempChange < -(2 * timeSpan)
             ELSE FALSE

RECURSIVE sum(_, _)
\* The accumulation loop of detectSpeedInstability, "sum": over events[1..k].
sum(events, k) ==
    IF k = 0 THEN 0 ELSE sum(events, k - 1) + events[k].ConveyorSpeed

RECURSIVE sumSquares(_, _)
\* The accumulation loop of detectSpeedInstability, "sumSquares": over events[1..k].
sumSquares(events, k) ==
    IF k = 0
    THEN 0
    ELSE sumSquares(events, k - 1) + events[k].ConveyorSpeed * events[k].ConveyorSpeed

\* detectSpeedInstability. With speeds in tenths, the variance (sumSquares/n -
\* mean*mean) is (n*Q - S*S) / (100*n*n) for S the sum and Q the sum of squares
\* of the tenths; the code squares the variance and compares it with 0.5.
detectSpeedInstability(events) ==
    IF Len(events) < 5
    THEN FALSE
    ELSE LET n == Len(events)
             S == sum(events, n)
             Q == sumSquares(events, n)
             v == n * Q - S * S
         IN  2 * v * v > 10000 * n * n * n * n

\* A trend check that looks at the 5 most recent events only.
detectTrendAnomaliesLastFive(event, window) ==
    LET recentEvents == GetRecentEvents(window, 5)
    IN  IF Len(recentEvents) < 5
        THEN <<>>
        ELSE (IF detectRapidTemperatureChange(recentEvents)
              THEN <<[AlertType |-> "rapid_temperature_change", Severity |-> "medium",
                      Message |-> <<"Rapid temperature change detected on machine",
                                    event.MachineID>>]>>
              ELSE <<>>)
             \o
             (IF detectSpeedInstability(recentEvents)
              THEN <<[AlertType |-> "speed_instability", Severity |-> "medium",
                      Message |-> <<"Conveyor speed instability detected on machine",
                                    event.MachineID>>]>>
              ELSE <<>>)

\* detectTrendAnomalies: the alerts it hands to alertCallback, in order.
detectTrendAnomalies(event, window) ==
    LET recentEvents == GetRecentEvents(window, 10)
    IN  IF Len(recentEvents) < 5
        THEN <<>>
        ELSE (IF detectRapidTemperatureChange(recentEvents)
              THEN <<Alert("rapid_temperature_change", "medium",
                           <<"Rapid temperature change detected on machine",
                             event.MachineID>>)>>
              ELSE <<>>)
             \o
             (IF detectSpeedInstability(recentEvents)
              THEN <<Alert("speed_instability", "medium",
                           <<"Conveyor speed instability detected on machine",
                             event.MachineID>>)>>
              ELSE <<>>)

\* A pattern check that counts the faults of the whole window.
detectPatternAnomaliesWholeWindow(event, window) ==
    LET events == GetEvents(window)
        faultCount == Cardinality({i \in 1..Len(events) : events[i].Status = "fault"})
    IN  IF Len(events) >= 10 /\ faultCount >= 3
        THEN <<[AlertType |-> "repeated_faults", Severity |-> "high",
                Message |-> <<"Multiple faults detected in recent history",
                              ToString(faultCount)>>]>>
        ELSE <<>>

\* detectPatternAnomalies: the alerts it hands to alertCallback, in order.
detectPatternAnomalies(event, window) ==
    LET recentEvents == GetRecentEvents(window, 20)
        faultCount == Cardinality({i \in 1..Len(recentEvents) :
                                      recentEvents[i].Status = "fault"})
    IN  IF Len(recentEvents) < 10
        THEN <<>>
        ELSE IF faultCount >= 3
        THEN <<Alert("repeated_faults", "high",
                     <<"Multiple faults detected in recent history",
                       ToString(faultCount)>>)>>
        ELSE <<>>

\* NewAnomalyDetector
NewAnomalyDetector ==
    /\ thresholds = DefaultThresholds
    /\ slidingWindow = << >>
    /\ analyzed = NoEvent
    /\ raised = <<>>

\* An AnalyzeEvent that narrows the temperature range to the event it has seen.
AnalyzeEventAdapting(event) ==
    LET exists == event.MachineID \in DOMAIN slidingWindow
        window == Add(IF exists THEN slidingWindow[event.MachineID]
                                ELSE NewSlidingWindow(WindowSize), event)
    IN  /\ slidingWindow' =
              [m \in DOMAIN slidingWindow \cup {event.MachineID} |->
                  IF m = event.MachineID THEN window ELSE slidingWindow[m]]
        /\ analyzed' = event
        /\ raised' = detectThresholdViolations(thresholds, event)
                        \o detectTrendAnomalies(event, window)
                        \o detectPatternAnomalies(event, window)
        /\ thresholds' = [thresholds EXCEPT !.TemperatureMax = event.Temperature + 1]

\* An AnalyzeEvent that runs the checks on the window as it was and adds the
\* event afterwards.
AnalyzeEventChecksFirst(event) ==
    LET exists == event.MachineID \in DOMAIN slidingWindow
        before == IF exists THEN slidingWindow[event.MachineID]
                            ELSE NewSlidingWindow(WindowSize)
        window == Add(before, event)
    IN  /\ slidingWindow' =
              [m \in DOMAIN slidingWindow \cup {event.MachineID} |->
                  IF m = event.MachineID THEN window ELSE slidingWindow[m]]
        /\ analyzed' = event
        /\ raised' = detectThresholdViolations(thresholds, event)
                        \o detectTrendAnomalies(event, before)
                        \o detectPatternAnomalies(event, before)
        /\ UNCHANGED thresholds

\* An AnalyzeEvent that makes a new window for the machine on every call.
AnalyzeEventFreshWindow(event) ==
    LET window == Add(NewSlidingWindow(WindowSize), event)
    IN  /\ slidingWindow' =
              [m \in DOMAIN slidingWindow \cup {event.MachineID} |->
                  IF m = event.MachineID THEN window ELSE slidingWindow[m]]
        /\ analyzed' = event
        /\ raised' = detectThresholdViolations(thresholds, event)
                        \o detectTrendAnomalies(event, window)
                        \o detectPatternAnomalies(event, window)
        /\ UNCHANGED thresholds

\* An AnalyzeEvent that runs the pattern check ahead of the trend check.
AnalyzeEventPatternFirst(event) ==
    LET exists == event.MachineID \in DOMAIN slidingWindow
        window == Add(IF exists THEN slidingWindow[event.MachineID]
                                ELSE NewSlidingWindow(WindowSize), event)
    IN  /\ slidingWindow' =
              [m \in DOMAIN slidingWindow \cup {event.MachineID} |->
                  IF m = event.MachineID THEN window ELSE slidingWindow[m]]
        /\ analyzed' = event
        /\ raised' = detectThresholdViolations(thresholds, event)
                        \o detectPatternAnomalies(event, window)
                        \o detectTrendAnomalies(event, window)
        /\ UNCHANGED thresholds

\* AnalyzeEvent, under ad.mutex from entry to return: get or create the window
\* of the machine, add the event, then the three checks; every alert goes to
\* alertCallback as soon as its check raises it.
AnalyzeEvent(event) ==
    LET exists == event.MachineID \in DOMAIN slidingWindow
        window == Add(IF exists THEN slidingWindow[event.MachineID]
                                ELSE NewSlidingWindow(WindowSize), event)
    IN  /\ slidingWindow' =
              [m \in DOMAIN slidingWindow \cup {event.MachineID} |->
                  IF m = event.MachineID THEN window ELSE slidingWindow[m]]
        /\ analyzed' = event
        /\ raised' = detectThresholdViolations(thresholds, event)
                        \o detectTrendAnomalies(event, window)
                        \o detectPatternAnomalies(event, window)
        /\ UNCHANGED thresholds


\* An UpdateThresholds that stores the thresholds without taking ad.mutex.
UpdateThresholdsNoLock(th) == thresholds' = th

\* AnomalyDetector.UpdateThresholds: under ad.mutex, the detector takes the
\* thresholds given.
UpdateThresholds(th) ==
    /\ adMutex = "free"
    /\ thresholds' = th

\* AnalyzeEvent, step by step. Entry: the call takes ad.mutex, gets or creates
\* the window of the machine and adds the event.
AnalyzeLock(event) ==
    LET exists == event.MachineID \in DOMAIN slidingWindow
        window == Add(IF exists THEN slidingWindow[event.MachineID]
                                ELSE NewSlidingWindow(WindowSize), event)
    IN  /\ adMutex = "free"
        /\ adMutex' = "AnalyzeEvent"
        /\ slidingWindow' =
              [m \in DOMAIN slidingWindow \cup {event.MachineID} |->
                  IF m = event.MachineID THEN window ELSE slidingWindow[m]]
        /\ analyzed' = event
        /\ raised' = <<>>
        /\ adStage' = "speed"
        /\ used' = <<>>
        /\ UNCHANGED thresholds

\* detectThresholdViolations, one comparison at a time: each reads
\* ad.thresholds as it is when the comparison runs.
AnalyzeSpeed ==
    /\ adStage = "speed"
    /\ raised' = raised \o speedCheck(thresholds, analyzed)
    /\ used' = Append(used, thresholds)
    /\ adStage' = "temperature"
    /\ UNCHANGED <<adMutex, thresholds, slidingWindow, analyzed>>

AnalyzeTemperature ==
    /\ adStage = "temperature"
    /\ raised' = raised \o temperatureCheck(thresholds, analyzed)
    /\ used' = Append(used, thresholds)
    /\ adStage' = "angle"
    /\ UNCHANGED <<adMutex, thresholds, slidingWindow, analyzed>>

AnalyzeAngle ==
    /\ adStage = "angle"
    /\ raised' = raised \o angleCheck(thresholds, analyzed)
    /\ used' = Append(used, thresholds)
    /\ adStage' = "rest"
    /\ UNCHANGED <<adMutex, thresholds, slidingWindow, analyzed>>

\* The status check, the trend check and the pattern check, and the return of
\* AnalyzeEvent, which releases ad.mutex.
AnalyzeUnlock ==
    /\ adStage = "rest"
    /\ raised' = raised \o statusCheck(analyzed)
                        \o detectTrendAnomalies(analyzed, slidingWindow[analyzed.MachineID])
                        \o detectPatternAnomalies(analyzed, slidingWindow[analyzed.MachineID])
    /\ adStage' = "none"
    /\ adMutex' = "free"
    /\ UNCHANGED <<used, thresholds, slidingWindow, analyzed>>

\* AnomalyDetector.GetThresholds: the thresholds the detector holds.
GetThresholds == thresholds

RECURSIVE SumOf(_, _)
\* The accumulation loop of GetMachineStats over the values f[1..k].
SumOf(f, k) == IF k = 0 THEN 0 ELSE SumOf(f, k - 1) + f[k]

\* nil, returned by GetMachineStats for a machine without events.
NoStats == [event_count |-> 0]

\* AnomalyDetector.GetMachineStats. The averages and the fault rate are kept
\* as the sums they are the quotients of, over event_count.
GetMachineStats(machineID) ==
    IF machineID \notin DOMAIN slidingWindow
    THEN NoStats
    ELSE LET events == GetEvents(slidingWindow[machineID])
             n == Len(events)
         IN  IF n = 0
             THEN NoStats
             ELSE [event_count |-> n,
                   sum_temperature |->
                       SumOf([i \in 1..n |-> events[i].Temperature], n),
                   sum_conveyor_speed |->
                       SumOf([i \in 1..n |-> events[i].ConveyorSpeed], n),
                   sum_robot_arm_angle |->
                       SumOf([i \in 1..n |-> events[i].RobotArmAngle], n),
                   fault_count |-> Cardinality({i \in 1..n : events[i].Status = "fault"}),
                   last_event_time |-> events[n].Timestamp]

\* No GetThresholds result at hand.
NoThresholds == [ConveyorSpeedMin |-> -1]

\* No handler has called the detector yet.
ApiStart ==
    /\ gotThresholds = NoThresholds
    /\ updatedSince = FALSE
    /\ stats = NoStats
    /\ replied = "none"

\* ------------------------------------------------------------------ Kafka consumer

\* No message has been given to processMessage yet.
NoMessage == [offset |-> -1, decodes |-> FALSE, event |-> NoEvent]

\* NewConsumer: the three channels are made empty; Start has not been called.
NewConsumer ==
    /\ cnsPc = "new"
    /\ stopChannel = 0
    /\ consumerClosed = FALSE
    /\ eventChannel = <<>>
    /\ errorChannel = <<>>
    /\ chClosed = FALSE
    /\ delivered = 0
    /\ lastMsg = NoMessage
    /\ nSpins = 0

\* validateEvent with every limit one step wider than the code's.
validateEventWide(event) ==
    /\ event.MachineID # ""
    /\ event.Status # ""
    /\ event.EventType # ""
    /\ event.Status \in {"ok", "warning", "fault"}
    /\ ~(event.ConveyorSpeed < -1 \/ event.ConveyorSpeed > 101)
    /\ ~(event.Temperature < -51 \/ event.Temperature > 201)
    /\ ~(event.RobotArmAngle < -1 \/ event.RobotArmAngle > 361)

\* validateEvent: TRUE when it returns nil. Speed is in tenths of a m/s, so the
\* code's limit of 10 is 100 here.
validateEvent(event) ==
    /\ event.MachineID # ""
    /\ event.Status # ""
    /\ event.EventType # ""
    /\ event.Status \in {"ok", "warning", "fault"}
    /\ ~(event.ConveyorSpeed < 0 \/ event.ConveyorSpeed > 100)
    /\ ~(event.Temperature < -50 \/ event.Temperature > 200)
    /\ ~(event.RobotArmAngle < 0 \/ event.RobotArmAngle > 360)

\* A non-blocking send that puts the value at the front of the channel.
TrySendFront(ch, cap, x) == IF Len(ch) < cap THEN <<x>> \o ch ELSE ch

\* A non-blocking send on a buffered channel: "select { case ch <- x: default: }".
TrySend(ch, cap, x) == IF Len(ch) < cap THEN Append(ch, x) ELSE ch

\* processMessage: a payload that does not unmarshal and an event validateEvent
\* refuses are reported by a non-blocking send on the error channel; any
\* other event is sent on the event channel, also without blocking, so it is
\* dropped when the channel is full.
processMessage(msg) ==
    /\ lastMsg' = msg
    /\ IF ~msg.decodes
       THEN /\ errorChannel' = TrySend(errorChannel, ErrorChannelCap, "unmarshal")
            /\ UNCHANGED eventChannel
       ELSE IF ~validateEvent(msg.event)
       THEN /\ errorChannel' = TrySend(errorChannel, ErrorChannelCap, "invalid")
            /\ UNCHANGED eventChannel
       ELSE /\ eventChannel' = TrySend(eventChannel, EventChannelCap, msg.event)
            /\ UNCHANGED errorChannel

\* The events the broker holds at an offset. The producer stamps an event with
\* its offset. Two readings well inside every limit, one for each of two
\* machines; one reading on the upper limits and one on the lower limits of
\* validateEvent; and one event for each way of being one step outside.
BrokerReading(offset) ==
    [Timestamp |-> offset, MachineID |-> "m1", ConveyorSpeed |-> 20,
     Temperature |-> 72, RobotArmAngle |-> 90, Status |-> "ok",
     EventType |-> "reading", Description |-> NoDescription]

BrokerEvents(offset) ==
    LET e == BrokerReading(offset) IN
    {e, [e EXCEPT !.MachineID = "m2"],
     [e EXCEPT !.ConveyorSpeed = 100, !.Temperature = 200, !.RobotArmAngle = 360],
     [e EXCEPT !.ConveyorSpeed = 0, !.Temperature = -50, !.RobotArmAngle = 0],
     [e EXCEPT !.MachineID = ""], [e EXCEPT !.EventType = ""],
     [e EXCEPT !.Status = ""], [e EXCEPT !.Status = "broken"],
     [e EXCEPT !.ConveyorSpeed = -1], [e EXCEPT !.ConveyorSpeed = 101],
     [e EXCEPT !.Temperature = -51], [e EXCEPT !.Temperature = 201],
     [e EXCEPT !.RobotArmAngle = -1], [e EXCEPT !.RobotArmAngle = 361]}

\* The messages the broker can deliver at an offset: a payload that is not
\* JSON, or the JSON of one of the events above.
BrokerMessages(offset) ==
    {[offset |-> offset, decodes |-> FALSE, event |-> NoEvent]}
    \cup {[offset |-> offset, decodes |-> TRUE, event |-> e] : e \in BrokerEvents(offset)}

\* Start: the ingestion goroutine is started and reaches its select.
Start ==
    /\ cnsPc = "new"
    /\ cnsPc' = "select"
    /\ UNCHANGED <<stopChannel, consumerClosed, eventChannel, errorChannel,
                   chClosed, delivered, lastMsg, nSpins>>
    /\ UNCHANGED <<hubVars, detVars, drvVars, libVars, apiVars, extVars>>

\* The select of the ingestion loop: with a stop signal waiting the goroutine
\* returns and its deferred calls close the error channel and the event
\* channel; otherwise the default case calls ReadMessage(-1).
ConsumerSelect ==
    /\ cnsPc = "select"
    /\ IF stopChannel > 0
       THEN /\ stopChannel' = stopChannel - 1
            /\ cnsPc' = "done"
            /\ chClosed' = TRUE
       ELSE /\ cnsPc' = "read"
            /\ UNCHANGED <<stopChannel, chClosed>>
    /\ UNCHANGED <<consumerClosed, eventChannel, errorChannel, delivered,
                   lastMsg, nSpins>>
    /\ UNCHANGED <<hubVars, detVars, drvVars, libVars, apiVars, extVars>>

\* ReadMessage(-1) returns the next message of the broker and the loop gives
\* it to processMessage.
ReadMessage(msg) ==
    /\ cnsPc = "read"
    /\ ~consumerClosed
    /\ delivered < MaxMessages
    /\ msg.offset = delivered
    /\ delivered' = delivered + 1
    /\ processMessage(msg)
    /\ cnsPc' = "select"
    /\ UNCHANGED <<stopChannel, consumerClosed, chClosed, nSpins>>
    /\ UNCHANGED <<hubVars, detVars, drvVars, libVars, apiVars, extVars>>

\* What ReadMessage returns when it fails: no message, and kafka.ErrTimedOut
\* (offset -2 here) or another error (offset -3).
ReadFailure(timedOut) ==
    [offset |-> IF timedOut THEN -2 ELSE -3, decodes |-> FALSE, event |-> NoEvent]

\* A ReadMessage error that ends the ingestion goroutine.
ReadErrorFatal(timedOut) ==
    /\ cnsPc = "read"
    /\ lastMsg' = ReadFailure(timedOut)
    /\ errorChannel' = IF timedOut THEN errorChannel
                       ELSE TrySend(errorChannel, ErrorChannelCap, "consumer")
    /\ cnsPc' = IF timedOut THEN "select" ELSE "done"
    /\ chClosed' = IF timedOut THEN chClosed ELSE TRUE
    /\ UNCHANGED <<stopChannel, consumerClosed, eventChannel, delivered, nSpins>>
    /\ UNCHANGED <<hubVars, detVars, drvVars, libVars, apiVars, extVars>>

\* ReadMessage(-1) returns an error: a timeout is skipped, any other error is
\* reported by a non-blocking send on the error channel; the loop continues.
ReadError(timedOut) ==
    /\ cnsPc = "read"
    /\ lastMsg' = ReadFailure(timedOut)
    /\ errorChannel' = IF timedOut THEN errorChannel
                       ELSE TrySend(errorChannel, ErrorChannelCap, "consumer")
    /\ cnsPc' = "select"
    /\ UNCHANGED <<stopChannel, consumerClosed, eventChannel, chClosed,
                   delivered, nSpins>>
    /\ UNCHANGED <<hubVars, detVars, drvVars, libVars, apiVars, extVars>>

\* Stop: a non-blocking send on the stop channel, which holds one signal, and
\* c.consumer.Close().
Stop ==
    /\ ~consumerClosed
    /\ stopChannel' = IF stopChannel < 1 THEN stopChannel + 1 ELSE stopChannel
    /\ consumerClosed' = TRUE
    /\ UNCHANGED <<cnsPc, eventChannel, errorChannel, chClosed, delivered,
                   lastMsg, nSpins>>

\* A call of Stop by the owner of the consumer.
CallStop ==
    /\ Stop
    /\ UNCHANGED <<hubVars, detVars, drvVars, libVars, apiVars, extVars>>

\* ------------------------------------------------------------------ process

\* The clock readings connections are made at: the start of the process, the
\* nanoseconds 1, 1000 and 1001 of its first second, and the nanoseconds 0 and
\* 1000 of its second second.
Instants == {0, 1, 1000, 1001, NanosPerSecond, NanosPerSecond + 1000}

\* The process has just started: the clock is at its origin and no connection
\* has been given an id.
ProcessStart ==
    /\ now = 0
    /\ id = [c \in Clients |-> NoID]
    /\ NewConsumer
    /\ mainPc = "serving"
    /\ connLost = [c \in Clients |-> FALSE]
    /\ wpPc = [c \in Clients |-> "idle"]
    /\ adMutex = "free"
    /\ adStage = "none"
    /\ used = <<>>
    /\ counting = FALSE

\* Time passes.
Tick ==
    /\ now' \in {t \in Instants : t > now}
    /\ UNCHANGED <<id, mainPc, pumpVars, syncVars>>
    /\ UNCHANGED <<hubVars, detVars, drvVars, libVars, apiVars, cnsVars>>

\* ------------------------------------------------------------------ driver loop

\* One step the driver loop has taken for the event in hand.
Op(op, ok, what) == [op |-> op, ok |-> ok, what |-> what]

\* The events the driver loop is fed in SpecDriver: a reading in range, the
\* conveyor jam (speed 0.0, status fault), and a warning.
NominalEvent ==
    [Timestamp |-> 0, MachineID |-> "m1", ConveyorSpeed |-> 20, Temperature |-> 72,
     RobotArmAngle |-> 90, Status |-> "ok", EventType |-> "reading",
     Description |-> NoDescription]

JamEvent ==
    [NominalEvent EXCEPT !.ConveyorSpeed = 0, !.Status = "fault",
                         !.EventType = "conveyor_jam"]

WarningEvent ==
    [NominalEvent EXCEPT !.Status = "warning", !.EventType = "vibration"]

DriverEvents == {NominalEvent, JamEvent, WarningEvent}

\* The clients that connect in SpecDriver.
DriverClients == {"c1"}

\* main, before the first event: the loop waits on consumer.EventChannel().
DriverStart ==
    /\ drvPc = "recv"
    /\ pending = <<>>
    /\ drvOps = <<>>
    /\ nRecv = 0
    /\ nTicks = 0

\* case event := <-consumer.EventChannel(): db.InsertEvent, which succeeds
\* (stored) or fails; on failure the loop logs and continues with the next
\* event; on success AnalyzeEvent runs, up to its first call of alertCallback.
DriverReceive(event, stored) ==
    /\ drvPc = "recv"
    /\ nRecv < MaxEvents
    /\ nRecv' = nRecv + 1
    /\ IF stored
       THEN /\ AnalyzeEvent(event)
            /\ pending' = raised'
            /\ drvPc' = IF raised' = <<>> THEN "broadcast" ELSE "callback"
            /\ drvOps' = <<Op("InsertEvent", TRUE, event.EventType),
                           Op("AnalyzeEvent", TRUE, event.EventType)>>
       ELSE /\ UNCHANGED detVars
            /\ pending' = <<>>
            /\ drvPc' = "recv"
            /\ drvOps' = <<Op("InsertEvent", FALSE, event.EventType)>>
    /\ UNCHANGED <<hubVars, nTicks, libVars, apiVars, extVars>>

\* The driver loop given an event with no consumer in sight.
DriverFed(event, stored) ==
    /\ DriverReceive(event, stored)
    /\ UNCHANGED cnsVars

\* case event := <-consumer.EventChannel() with an event waiting in the channel.
DriverTake(stored) ==
    /\ eventChannel # <<>>
    /\ DriverReceive(Head(eventChannel), stored)
    /\ eventChannel' = Tail(eventChannel)
    /\ UNCHANGED <<cnsPc, stopChannel, consumerClosed, errorChannel, chClosed,
                   delivered, lastMsg, nSpins>>

\* case err := <-consumer.ErrorChannel() with an error waiting: it is logged.
DriverError ==
    /\ drvPc = "recv"
    /\ errorChannel # <<>>
    /\ errorChannel' = Tail(errorChannel)
    /\ UNCHANGED <<cnsPc, stopChannel, consumerClosed, eventChannel, chClosed,
                   delivered, lastMsg, nSpins>>
    /\ UNCHANGED <<hubVars, detVars, drvVars, libVars, apiVars, extVars>>

\* A receive of the select on a channel that is closed and empty: it returns
\* at once with nil, the event case skips its body (the error case logs the
\* nil error), and the for loop comes round to the select again.
DriverNil ==
    /\ drvPc = "recv"
    /\ chClosed
    /\ eventChannel = <<>> \/ errorChannel = <<>>
    /\ nSpins < MaxSpins
    /\ nSpins' = nSpins + 1
    /\ UNCHANGED <<cnsPc, stopChannel, consumerClosed, eventChannel,
                   errorChannel, chClosed, delivered, lastMsg>>
    /\ UNCHANGED <<hubVars, detVars, drvVars, libVars, apiVars, extVars>>

\* An alertCallback that gives up on an alert the store refused: the alert is
\* published only when db.InsertAlert succeeded.
alertCallbackStoredOnly(stored) ==
    /\ drvPc = "callback"
    /\ IF stored THEN BroadcastAlert("driver") ELSE UNCHANGED hubVars
    /\ drvOps' = drvOps \o
          (<<Op("InsertAlert", stored, Head(pending).AlertType)>> \o
           (IF stored
            THEN <<Op("BroadcastAlert", hubPc = "select", Head(pending).AlertType)>>
            ELSE <<>>))
    /\ pending' = Tail(pending)
    /\ drvPc' = IF Tail(pending) = <<>> THEN "broadcast" ELSE "callback"
    /\ UNCHANGED <<detVars, nRecv, nTicks, libVars, apiVars, extVars, cnsVars>>

\* An alertCallback that returns when InsertAlert fails, and with it the loop
\* over the alerts of the event.
alertCallbackGivesUp(stored) ==
    /\ drvPc = "callback"
    /\ IF stored THEN BroadcastAlert("driver") ELSE UNCHANGED hubVars
    /\ drvOps' = drvOps \o
          (<<Op("InsertAlert", stored, Head(pending).AlertType)>> \o
           (IF stored
            THEN <<Op("BroadcastAlert", hubPc = "select", Head(pending).AlertType)>>
            ELSE <<>>))
    /\ pending' = IF stored THEN Tail(pending) ELSE <<>>
    /\ drvPc' = IF pending' = <<>> THEN "broadcast" ELSE "callback"
    /\ UNCHANGED <<detVars, nRecv, nTicks, libVars, apiVars, extVars, cnsVars>>

\* An alertCallback that publishes the alert first and stores it afterwards.
alertCallbackPublishFirst(stored) ==
    /\ drvPc = "callback"
    /\ BroadcastAlert("driver")
    /\ drvOps' = drvOps \o <<Op("BroadcastAlert", hubPc = "select",
                                 Head(pending).AlertType),
                              Op("InsertAlert", stored, Head(pending).AlertType)>>
    /\ pending' = Tail(pending)
    /\ drvPc' = IF Tail(pending) = <<>> THEN "broadcast" ELSE "callback"
    /\ UNCHANGED <<detVars, nRecv, nTicks, libVars, apiVars, extVars, cnsVars>>

\* alertCallback for the next alert AnalyzeEvent raises: db.InsertAlert, which
\* succeeds (stored) or fails and is logged either way, then wsHub.BroadcastAlert.
alertCallback(stored) ==
    /\ drvPc = "callback"
    /\ BroadcastAlert("driver")
    /\ drvOps' = drvOps \o <<Op("InsertAlert", stored, Head(pending).AlertType),
                              Op("BroadcastAlert", hubPc = "select",
                                 Head(pending).AlertType)>>
    /\ pending' = Tail(pending)
    /\ drvPc' = IF Tail(pending) = <<>> THEN "broadcast" ELSE "callback"
    /\ UNCHANGED <<detVars, nRecv, nTicks, libVars, apiVars, extVars, cnsVars>>

\* AnalyzeEvent has returned: wsHub.BroadcastEvent(event), then the loop waits
\* for the next event.
DriverBroadcast ==
    /\ drvPc = "broadcast"
    /\ BroadcastEvent("driver")
    /\ drvOps' = Append(drvOps, Op("BroadcastEvent", hubPc = "select",
                                   analyzed.EventType))
    /\ drvPc' = "recv"
    /\ UNCHANGED <<detVars, pending, nRecv, nTicks, libVars, apiVars, extVars, cnsVars>>

\* The statistics goroutine, one tick: db.GetEventStats succeeds (ok) and the
\* stats are broadcast, or fails and the tick is skipped.
StatsTick(ok) ==
    /\ nTicks < MaxTicks
    /\ nTicks' = nTicks + 1
    /\ IF ok THEN BroadcastStats("timer") ELSE UNCHANGED hubVars
    /\ UNCHANGED <<detVars, drvPc, pending, drvOps, nRecv, libVars, apiVars, extVars, cnsVars>>

\* main, "<-quit" to server.Shutdown: the signal arrives and the HTTP server
\* is shut down.
MainQuit ==
    /\ mainPc = "serving"
    /\ mainPc' = "stopping"
    /\ UNCHANGED <<idVars, pumpVars, syncVars>>
    /\ UNCHANGED <<hubVars, detVars, drvVars, libVars, apiVars, cnsVars>>

\* main returns, first deferred call of interest: consumer.Stop().
MainStop ==
    /\ mainPc = "stopping"
    /\ Stop
    /\ mainPc' = "closing"
    /\ UNCHANGED <<idVars, pumpVars, syncVars>>
    /\ UNCHANGED <<hubVars, detVars, drvVars, libVars, apiVars>>

\* main returns, the rest: db.Close() and the end of the process, which ends
\* every goroutine where it stands.
MainExit ==
    /\ mainPc = "closing"
    /\ mainPc' = "exited"
    /\ UNCHANGED <<idVars, pumpVars, syncVars>>
    /\ UNCHANGED <<hubVars, detVars, drvVars, libVars, apiVars, cnsVars>>

\* The process has not ended.
Alive == mainPc # "exited"

\* ------------------------------------------------------------------ specifications

\* The callers of the hub: the driver loop publishes events and alerts, the
\* statistics timer publishes stats.
CallBroadcastEvent ==
    /\ ~Crashed
    /\ TotalPub < MaxPub
    /\ BroadcastEvent("driver")
    /\ UNCHANGED <<detVars, drvVars, libVars, apiVars, extVars, cnsVars>>

CallBroadcastAlert ==
    /\ ~Crashed
    /\ TotalPub < MaxPub
    /\ BroadcastAlert("driver")
    /\ UNCHANGED <<detVars, drvVars, libVars, apiVars, extVars, cnsVars>>

CallBroadcastStats ==
    /\ ~Crashed
    /\ TotalPub < MaxPub
    /\ BroadcastStats("timer")
    /\ UNCHANGED <<detVars, drvVars, libVars, apiVars, extVars, cnsVars>>

NextHub ==
    \/ RunSelect
    \/ \E c \in Clients : HandleWebSocket(c)
    \/ RunWelcome
    \/ \E c \in Clients : RunUnregister(c)
    \/ \E c \in Clients : WritePump(c)
    \/ \E c \in Clients, t \in TopicSets : subscribe(c, t)
    \/ \E c \in Clients, t \in TopicSets : unsubscribe(c, t)
    \/ CallBroadcastEvent
    \/ CallBroadcastAlert
    \/ CallBroadcastStats
    \/ RunBroadcastStep
    \/ RunBroadcastDone

InitHub ==
    NewHub /\ NewAnomalyDetector /\ DriverStart /\ LibStart /\ ApiStart /\ ProcessStart

SpecHub == InitHub /\ [][NextHub]_vars

\* The hub with one connection that also sends pings: every sender on the
\* mailbox of that connection (welcome notice, broadcasts, pong replies) and
\* its write pump.
MailboxClients == {"c1"}

NextMailbox ==
    \/ RunSelect
    \/ \E c \in MailboxClients : HandleWebSocket(c)
    \/ RunWelcome
    \/ \E c \in MailboxClients : RunUnregister(c)
    \/ \E c \in MailboxClients : WritePump(c)
    \/ \E c \in MailboxClients : handlePing(c)
    \/ CallBroadcastEvent
    \/ CallBroadcastAlert
    \/ CallBroadcastStats
    \/ RunBroadcastStep
    \/ RunBroadcastDone

SpecMailbox == InitHub /\ [][NextMailbox]_vars

\* Hub.GetClientCount, called by the health handlers: the call takes the read
\* lock of h.mutex, which no writer holds between two steps of Run.
GetClientCountLock ==
    /\ ~counting
    /\ counting' = TRUE
    /\ UNCHANGED <<adMutex, adStage, used>>
    /\ UNCHANGED <<hubVars, detVars, drvVars, libVars, apiVars, idVars, mainPc,
                   pumpVars, cnsVars>>

\* The call reads len(h.clients) and returns, releasing the read lock.
GetClientCountReturn ==
    /\ counting
    /\ counting' = FALSE
    /\ UNCHANGED <<adMutex, adStage, used>>
    /\ UNCHANGED <<hubVars, detVars, drvVars, libVars, apiVars, idVars, mainPc,
                   pumpVars, cnsVars>>

\* One connection, the publishers, and a health handler counting the clients.
NextRegistry ==
    \/ NextMailbox
    \/ GetClientCountLock
    \/ GetClientCountReturn

SpecRegistry == InitHub /\ [][NextRegistry]_vars

\* Connections made at different times: the hub without publishers, and the
\* clock.
NextIds ==
    \/ Tick
    \/ RunSelect
    \/ \E c \in Clients : HandleWebSocket(c)
    \/ RunWelcome
    \/ \E c \in Clients : RunUnregister(c)
    \/ \E c \in Clients : WritePump(c)

SpecIds == InitHub /\ [][NextIds]_vars

\* The hub, its publishers and one connection that can break. Run and the
\* two pumps of the connection are scheduled: Run takes its steps; readPump,
\* once the connection is broken, leaves its loop and hands itself to Run as
\* soon as Run stays parked in its select; writePump returns once it can.
NextKeepalive ==
    \/ RunSelect
    \/ \E c \in MailboxClients : HandleWebSocket(c)
    \/ RunWelcome
    \/ \E c \in MailboxClients : RunUnregister(c)
    \/ \E c \in MailboxClients : WritePump(c)
    \/ \E c \in MailboxClients : ConnFail(c)
    \/ \E c \in MailboxClients : WritePumpExit(c)
    \/ CallBroadcastEvent
    \/ CallBroadcastAlert
    \/ CallBroadcastStats
    \/ RunBroadcastStep
    \/ RunBroadcastDone

SpecKeepalive ==
    /\ InitHub
    /\ [][NextKeepalive]_vars
    /\ WF_vars(RunSelect)
    /\ WF_vars(RunWelcome)
    /\ WF_vars(RunBroadcastStep)
    /\ WF_vars(RunBroadcastDone)
    /\ \A c \in MailboxClients :
          /\ WF_vars(connLost[c] /\ RunUnregister(c))
          /\ WF_vars(WritePumpExit(c))

\* The driver loop and the statistics timer publishing into the hub, with
\* clients connecting and draining their mailboxes.
NextDriver ==
    \/ \E e \in DriverEvents, stored \in BOOLEAN : DriverFed(e, stored)
    \/ \E stored \in BOOLEAN : alertCallback(stored)
    \/ DriverBroadcast
    \/ \E ok \in BOOLEAN : StatsTick(ok)
    \/ RunSelect
    \/ \E c \in DriverClients : HandleWebSocket(c)
    \/ RunWelcome
    \/ \E c \in DriverClients : WritePump(c)
    \/ RunBroadcastStep
    \/ RunBroadcastDone

InitDriver == InitHub /\ chanCap = 1

SpecDriver == InitDriver /\ [][NextDriver]_vars

\* The consumer on its own, with every kind of message, and the driver loop
\* taking what the consumer sends while the store is down.
NextConsumer ==
    \/ Start
    \/ ConsumerSelect
    \/ \E msg \in BrokerMessages(delivered) : ReadMessage(msg)
    \/ \E timedOut \in BOOLEAN : ReadError(timedOut)
    \/ CallStop
    \/ DriverTake(FALSE)
    \/ DriverError
    \/ DriverNil

SpecConsumer == InitDriver /\ [][NextConsumer]_vars

\* The same, with the ingestion goroutine scheduled: once started it reaches
\* its select, and at its select it goes on. Nothing makes a ReadMessage(-1)
\* in progress return: that is up to the broker and the client library.
SpecConsumerFair ==
    /\ InitDriver
    /\ [][NextConsumer]_vars
    /\ WF_vars(Start)
    /\ WF_vars(ConsumerSelect)

\* The messages the broker delivers in SpecPipeline: a payload that is not
\* JSON, a reading of either machine, and the reading on the upper limits
\* (which raises alerts).
PipelineMessages(offset) ==
    {msg \in BrokerMessages(offset) :
        \/ ~msg.decodes
        \/ msg.event \in {BrokerReading(offset),
                           [BrokerReading(offset) EXCEPT !.MachineID = "m2"],
                           [BrokerReading(offset) EXCEPT !.ConveyorSpeed = 100,
                               !.Temperature = 200, !.RobotArmAngle = 360]}}

\* The consumer and the driver loop reading its channels.
NextPipeline ==
    \/ Start
    \/ ConsumerSelect
    \/ \E msg \in PipelineMessages(delivered) : ReadMessage(msg)
    \/ \E timedOut \in BOOLEAN : ReadError(timedOut)
    \/ CallStop
    \/ \E stored \in BOOLEAN : DriverTake(stored)
    \/ \E stored \in BOOLEAN : alertCallback(stored)
    \/ DriverBroadcast
    \/ DriverError
    \/ DriverNil

SpecPipeline == InitDriver /\ [][NextPipeline]_vars

\* The consumer and the driver loop while main waits for the signal, shuts
\* down and returns.
NextShutdown ==
    \/ MainQuit
    \/ MainStop
    \/ MainExit
    \/ Alive /\ Start
    \/ Alive /\ ConsumerSelect
    \/ Alive /\ \E msg \in PipelineMessages(delivered) : ReadMessage(msg)
    \/ Alive /\ \E timedOut \in BOOLEAN : ReadError(timedOut)
    \/ Alive /\ \E stored \in BOOLEAN : DriverTake(stored)
    \/ Alive /\ \E stored \in BOOLEAN : alertCallback(stored)
    \/ Alive /\ DriverBroadcast
    \/ Alive /\ DriverError
    \/ Alive /\ DriverNil

SpecShutdown == InitDriver /\ [][NextShutdown]_vars

\* A second set of thresholds the update handler accepts: 0.5..3.0 m/s,
\* 20..80 C, 10..170 deg.
TightThresholds ==
    [ConveyorSpeedMin |-> 5, ConveyorSpeedMax |-> 30,
     TemperatureMin |-> 20, TemperatureMax |-> 80,
     RobotAngleMin |-> 10, RobotAngleMax |-> 170]

ThresholdChoices == {DefaultThresholds, TightThresholds}

\* The events AnalyzeEvent is given in SpecThreshold: every quantity below,
\* at, between and above the bounds of the default thresholds, every status,
\* with and without a description.
SpeedValues == {0, 1, 20, 35, 36}
TemperatureValues == {14, 15, 50, 85, 86}
AngleValues == {0, 90, 180, 181}
Descriptions ==
    {NoDescription,
     [present |-> TRUE, isString |-> TRUE, text |-> "belt jammed"],
     [present |-> TRUE, isString |-> FALSE, text |-> "42"]}
StatusCases ==
    {<<"ok", "reading", NoDescription>>, <<"warning", "vibration", NoDescription>>}
        \cup {<<"fault", t, d>> : t \in {"conveyor_jam", "overheat"}, d \in Descriptions}

ThresholdEvents ==
    {[Timestamp |-> 0, MachineID |-> "m1", ConveyorSpeed |-> s, Temperature |-> t,
      RobotArmAngle |-> a, Status |-> c[1], EventType |-> c[2], Description |-> c[3]] :
        s \in SpeedValues, t \in TemperatureValues, a \in AngleValues,
        c \in StatusCases}

\* Every window holds fewer than n events.
WindowsBelow(n) ==
    \A m \in DOMAIN slidingWindow : Len(GetEvents(slidingWindow[m])) < n

\* One call of AnalyzeEvent on its own (no driver loop around it).
AnalyzeCall(event) ==
    /\ AnalyzeEvent(event)
    /\ UNCHANGED <<hubVars, drvVars, libVars, apiVars, extVars, cnsVars>>

\* AnalyzeEvent on any event, under thresholds the detector can hold.
InitThreshold ==
    /\ NewHub /\ chanCap = 1
    /\ DriverStart
    /\ LibStart
    /\ ApiStart
    /\ ProcessStart
    /\ thresholds \in ThresholdChoices
    /\ slidingWindow = << >>
    /\ analyzed = NoEvent
    /\ raised = <<>>

NextThreshold ==
    /\ WindowsBelow(MaxAnalyze)
    /\ \E e \in ThresholdEvents : AnalyzeCall(e)

SpecThreshold == InitThreshold /\ [][NextThreshold]_vars

\* The events of one machine, one a second: a reading in range, and a fault
\* with every quantity out of range (speed 0.0, 86 C, 181 deg).
CalmEvent(t) == [NominalEvent EXCEPT !.Timestamp = t]
WildEvent(t) ==
    [NominalEvent EXCEPT !.Timestamp = t, !.ConveyorSpeed = 0, !.Temperature = 86,
                         !.RobotArmAngle = 181, !.Status = "fault",
                         !.EventType = "conveyor_jam"]

\* The events held for the machine of the events above, oldest first.
Held == IF "m1" \in DOMAIN slidingWindow THEN GetEvents(slidingWindow["m1"]) ELSE <<>>

\* The faults among them.
HeldFaults == Cardinality({i \in 1..Len(Held) : Held[i].Status = "fault"})

\* The detector as main builds it, with no connection ever made to the hub.
InitDetector == InitHub /\ chanCap = 1

\* AnalyzeEvent on the next reading in range.
PatternCalm ==
    /\ Len(Held) < MaxPatternEvents
    /\ AnalyzeCall(CalmEvent(Len(Held) + 1))

\* AnalyzeEvent on the next fault.
PatternFault ==
    /\ Len(Held) < MaxPatternEvents
    /\ HeldFaults < MaxFaults
    /\ AnalyzeCall(WildEvent(Len(Held) + 1))

NextPattern == PatternCalm \/ PatternFault

SpecPattern == InitDetector /\ [][NextPattern]_vars

\* The timestamp of the newest event held, 0 before the first.
LastTimestamp == IF Held = <<>> THEN 0 ELSE Held[Len(Held)].Timestamp

\* The temperatures and the steps of the timestamp, in seconds, from one event
\* to the next in SpecTemperature: producers stamp the events, so a step can
\* go backwards.
TrendTemperatures == {20, 35}
TimeSteps == {-1, 1, 15}

\* AnalyzeEvent on the next event of the machine, with its temperature and
\* its timestamp.
TemperatureEvent(temperature, dt) ==
    /\ Len(Held) < MaxTemperatureEvents
    /\ AnalyzeCall([NominalEvent EXCEPT !.Timestamp = LastTimestamp + dt,
                                        !.Temperature = temperature])

NextTemperature ==
    \E temperature \in TrendTemperatures, dt \in TimeSteps :
        TemperatureEvent(temperature, dt)

SpecTemperature == InitDetector /\ [][NextTemperature]_vars

\* The conveyor speeds in SpecSpeed: 0.5 and 3.5 m/s.
TrendSpeeds == {5, 35}

\* AnalyzeEvent on the next event of the machine, with its speed.
SpeedEvent(speed) ==
    /\ Len(Held) < MaxSpeedEvents
    /\ AnalyzeCall([NominalEvent EXCEPT !.Timestamp = Len(Held) + 1,
                                        !.ConveyorSpeed = speed])

NextSpeed == \E speed \in TrendSpeeds : SpeedEvent(speed)

SpecSpeed == InitDetector /\ [][NextSpeed]_vars

\* A window of any small capacity, with Add, GetEvents and GetRecentEvents
\* called in any order.
InitWindow ==
    /\ NewHub /\ chanCap = 1
    /\ NewAnomalyDetector
    /\ DriverStart
    /\ ring \in {NewSlidingWindow(c) : c \in 1..MaxWindow}
    /\ added = <<>>
    /\ slice = NoSlice
    /\ sliceSeen = <<>>
    /\ recent = NoRecent
    /\ ApiStart
    /\ ProcessStart

NextWindow ==
    \/ AddCall
    \/ GetEventsCall
    \/ \E n \in 0..(MaxWindow + 1) : GetRecentEventsCall(n)

SpecWindow == InitWindow /\ [][NextWindow]_vars

\* The bodies PUT /anomaly/thresholds is given: a field left out of the JSON
\* is 0; speeds in tenths of m/s.
ThresholdRequests ==
    [ConveyorSpeedMin : {-1, 1}, ConveyorSpeedMax : {1, 35},
     TemperatureMin : {15, 20}, TemperatureMax : {15, 85},
     RobotAngleMin : {0, 180}, RobotAngleMax : {0, 180}]

\* A handler that gives the body to the detector as soon as it binds and
\* validates it afterwards.
UpdateAnomalyThresholdsEager(body, binds) ==
    /\ IF ~binds
       THEN /\ replied' = "Invalid threshold data"
            /\ UNCHANGED <<thresholds, updatedSince>>
       ELSE /\ UpdateThresholds(body)
            /\ updatedSince' = TRUE
            /\ replied' =
                  IF body.ConveyorSpeedMin < 0
                        \/ body.ConveyorSpeedMax <= body.ConveyorSpeedMin
                  THEN "Invalid conveyor speed thresholds"
                  ELSE IF body.TemperatureMax <= body.TemperatureMin
                  THEN "Invalid temperature thresholds"
                  ELSE "StatusOK"
    /\ UNCHANGED <<slidingWindow, analyzed, raised, gotThresholds, stats>>
    /\ UNCHANGED <<hubVars, drvVars, libVars, extVars, cnsVars>>

\* Handler.UpdateAnomalyThresholds: a body that does not bind, a speed range
\* or a temperature range that is refused, or the update of the detector.
UpdateAnomalyThresholds(body, binds) ==
    /\ IF ~binds
       THEN /\ replied' = "Invalid threshold data"
            /\ UNCHANGED <<thresholds, updatedSince>>
       ELSE IF body.ConveyorSpeedMin < 0 \/ body.ConveyorSpeedMax <= body.ConveyorSpeedMin
       THEN /\ replied' = "Invalid conveyor speed thresholds"
            /\ UNCHANGED <<thresholds, updatedSince>>
       ELSE IF body.TemperatureMax <= body.TemperatureMin
       THEN /\ replied' = "Invalid temperature thresholds"
            /\ UNCHANGED <<thresholds, updatedSince>>
       ELSE /\ UpdateThresholds(body)
            /\ updatedSince' = TRUE
            /\ replied' = "StatusOK"
    /\ UNCHANGED <<slidingWindow, analyzed, raised, gotThresholds, stats>>
    /\ UNCHANGED <<hubVars, drvVars, libVars, extVars, cnsVars>>

\* Handler.GetAnomalyThresholds: the handler reads the thresholds.
GetAnomalyThresholds ==
    /\ gotThresholds' = GetThresholds
    /\ updatedSince' = FALSE
    /\ replied' = "StatusOK"
    /\ UNCHANGED stats
    /\ UNCHANGED <<hubVars, detVars, drvVars, libVars, extVars, cnsVars>>

\* A handler reads the statistics of a machine.
GetMachineStatsCall(machineID) ==
    /\ stats' = GetMachineStats(machineID)
    /\ UNCHANGED <<gotThresholds, updatedSince, replied>>
    /\ UNCHANGED <<hubVars, detVars, drvVars, libVars, extVars, cnsVars>>

\* AnalyzeEvent by the driver loop, between the calls of the handlers.
AnalyzeBetween(event) ==
    /\ WindowsBelow(MaxAnalyze)
    /\ AnalyzeCall(event)

\* The thresholds value the handler declares, as it is when the body does not bind.
UnboundBody ==
    [ConveyorSpeedMin |-> 0, ConveyorSpeedMax |-> 0,
     TemperatureMin |-> 0, TemperatureMax |-> 0,
     RobotAngleMin |-> 0, RobotAngleMax |-> 0]

NextUpdate ==
    \/ \E body \in ThresholdRequests : UpdateAnomalyThresholds(body, TRUE)
    \/ UpdateAnomalyThresholds(UnboundBody, FALSE)
    \/ GetAnomalyThresholds
    \/ \E m \in {"m1", "m2"} : GetMachineStatsCall(m)
    \/ \E event \in DriverEvents : AnalyzeBetween(event)

SpecUpdate == InitDetector /\ [][NextUpdate]_vars

\* The events of SpecMachines: those of the driver loop, from two machines.
MachineEvents ==
    DriverEvents \cup {[event EXCEPT !.MachineID = "m2"] : event \in DriverEvents}

\* AnalyzeEvent on events of two machines, and the statistics handler.
NextMachines ==
    \/ \E event \in MachineEvents :
          WindowsBelow(MaxAnalyze + 1) /\ AnalyzeCall(event)
    \/ \E m \in {"m1", "m2"} : GetMachineStatsCall(m)

SpecMachines == InitDetector /\ [][NextMachines]_vars

\* The driver loop inside AnalyzeEvent while the handlers update and read the
\* thresholds: AnalyzeEvent step by step, on readings of one machine.
LockEvents ==
    {NominalEvent,
     [NominalEvent EXCEPT !.ConveyorSpeed = 40, !.Temperature = 90,
                          !.RobotArmAngle = 200]}

\* The bodies the handlers send in SpecLock: ranges that are accepted, and ranges
\* that are refused.
LockRequests ==
    {body \in ThresholdRequests :
        /\ body.RobotAngleMin = 0
        /\ body.ConveyorSpeedMin = 1}

AnalyzeStep ==
    /\ \/ \E event \in LockEvents : WindowsBelow(MaxAnalyze + 1) /\ AnalyzeLock(event)
       \/ AnalyzeSpeed
       \/ AnalyzeTemperature
       \/ AnalyzeAngle
       \/ AnalyzeUnlock
    /\ UNCHANGED counting
    /\ UNCHANGED <<hubVars, drvVars, libVars, apiVars, idVars, mainPc, pumpVars, cnsVars>>

NextLock ==
    \/ AnalyzeStep
    \/ \E body \in LockRequests, binds \in BOOLEAN :
          UpdateAnomalyThresholds(body, binds)
    \/ GetAnomalyThresholds

SpecLock == InitDetector /\ [][NextLock]_vars

\* ------------------------------------------------------------------ claims: hub

\* Run's broadcast loop tries its send on client c in this step.
Visited(c) == hubPc = "broadcast" /\ c \in hubIter /\ c \notin hubIter'

\* C1: every BroadcastEvent call made while some registered subscriber has room
\* in its mailbox is taken by Run, with every registered subscriber to be served;
\* no published message is lost for all subscribers.
C1_EveryPublishReachesSubscribers ==
    [][(BroadcastEvent("driver") /\ \E c \in clients : HasRoom(c))
          => /\ hubPc' = "broadcast"
             /\ hubMsg' = [type |-> "sensor_event", from |-> "driver",
                           seq |-> pubCount'["driver"]]
             /\ hubIter' = clients]_vars

\* C2: in every mailbox the messages of one publishing caller are in the order
\* of that caller's publish calls.
C2_CallerOrderInMailbox ==
    \A c \in Clients : \A i, j \in 1..Len(send[c]) :
        (i < j /\ send[c][i].from \in Callers /\ send[c][i].from = send[c][j].from)
            => send[c][i].seq < send[c][j].seq

\* A mailbox holds two messages of one caller.
C2_Witness ==
    \E c \in Clients : \E i, j \in 1..Len(send[c]) :
        i < j /\ send[c][i].from \in Callers /\ send[c][i].from = send[c][j].from

\* C3 (as stated): a subscriber with mailbox capacity 1 that never drains is
\* still registered after the first publish attempt to it. Its mailbox then holds
\* the welcome notice alone.
C3_SurvivesFirstAttempt ==
    [][\A c \in Clients :
          (Visited(c) /\ chanCap = 1 /\ ~drained[c] /\ send[c] = <<Welcome(c)>>)
              => c \in clients']_vars

\* C3 (amended): a registered subscriber that never drains holds the welcome
\* notice from its registration on, so a publish attempt that finds its mailbox full (the
\* first one for capacity 1, attempt number chanCap in general) removes it
\* from the registry and closes its mailbox; an attempt that finds room keeps
\* it and appends the message. The attempt on one subscriber leaves every other
\* subscriber's mailbox and registration alone, and every visited subscriber
\* with room receives the message.
C3_NeverDrainedDropped ==
    [][\A c \in Clients : Visited(c) =>
          /\ ~drained[c] =>
                /\ \E i \in 1..Len(send[c]) : send[c][i] = Welcome(c)
                /\ chanCap = 1 => (c \notin clients' /\ closed'[c])
                /\ Len(send[c]) = chanCap => (c \notin clients' /\ closed'[c])
          /\ Len(send[c]) < chanCap =>
                (c \in clients' /\ send'[c] = Append(send[c], hubMsg))
          /\ \A d \in Clients \ {c} :
                send'[d] = send[d] /\ (d \in clients' <=> d \in clients)]_vars

\* A capacity-1 subscriber that never drained has been dropped by a broadcast
\* while another subscriber is registered and holds a published message.
C3_Witness ==
    /\ chanCap = 1
    /\ \E c \in Clients :
        /\ closed[c] /\ ~drained[c] /\ clPc[c] = "running" /\ c \notin clients
        /\ \E d \in clients \ {c} :
              send[d] # <<>> /\ send[d][Len(send[d])].from \in Callers

\* C7: a published message is enqueued to a subscriber only if the subscriber's
\* topic set is empty or holds the topic of the message.
C7_TopicFilter ==
    [][\A c \in Clients :
          (Visited(c) /\ Len(send'[c]) > Len(send[c]))
              => (subscribed[c] = {} \/ isSubscribed(c, hubMsg.type))]_vars

\* C4: broadcast never blocks on a slow consumer. A Broadcast call can always
\* be made and returns, taken by Run or dropped; a Run loop that is in its
\* broadcast case can always take its next step, however many mailboxes are
\* full; and a visited subscriber with a full mailbox is dropped in that step.
C4_BroadcastNeverBlocks ==
    /\ [](/\ ENABLED BroadcastEvent("driver")
          /\ ENABLED BroadcastAlert("driver")
          /\ ENABLED BroadcastStats("timer")
          /\ hubPc = "broadcast" => ENABLED (RunBroadcastStep \/ RunBroadcastDone))
    /\ [][\A c \in Clients :
             (Visited(c) /\ Len(send[c]) = chanCap)
                 => (c \notin clients' /\ closed'[c] /\ send'[c] = send[c])]_vars

\* Run is in its broadcast case with two subscribers still to serve, both with
\* a full mailbox that was never drained.
C4_Witness ==
    /\ hubPc = "broadcast"
    /\ Cardinality(hubIter) = 2
    /\ \A c \in hubIter : Len(send[c]) = chanCap /\ ~drained[c]

\* ------------------------------------------------------------------ claims: driver loop

\* The publish calls in the driver loop's log of the event in hand.
PublishOps(ops) ==
    SelectSeq(ops, LAMBDA o : o.op \in {"BroadcastAlert", "BroadcastEvent"})

\* The driver loop is done with an event and waits for the next.
EventDone == drvPc = "recv" /\ drvOps # <<>>

\* C5: when the EventStore write of an event fails, the driver loop still makes
\* a sensor_event publish call for that event.
C5_BroadcastAfterFailedInsert ==
    (EventDone /\ drvOps[1].op = "InsertEvent" /\ ~drvOps[1].ok)
        => \E i \in 1..Len(drvOps) : drvOps[i].op = "BroadcastEvent"

Analyzed == analyzed # NoEvent

\* The alerts raised whose alertType is one of types.
Raised(types) == SelectSeq(raised, LAMBDA a : a.AlertType \in types)

SpeedTypes == {"conveyor_speed_low", "conveyor_speed_high"}
TemperatureTypes == {"temperature_low", "temperature_high"}
AngleTypes == {"robot_angle_invalid"}

\* The value of each quantity, its bounds and the alert types that name it.
Quantities ==
    {[value |-> analyzed.ConveyorSpeed, min |-> thresholds.ConveyorSpeedMin,
      max |-> thresholds.ConveyorSpeedMax, types |-> SpeedTypes, name |-> "speed"],
     [value |-> analyzed.Temperature, min |-> thresholds.TemperatureMin,
      max |-> thresholds.TemperatureMax, types |-> TemperatureTypes,
      name |-> "temperature"],
     [value |-> analyzed.RobotArmAngle, min |-> thresholds.RobotAngleMin,
      max |-> thresholds.RobotAngleMax, types |-> AngleTypes, name |-> "angle"]}

\* C8 (as stated): a quantity outside [min, max), that is below min or at or
\* above max, raises at least one alert naming it; a quantity strictly inside
\* raises none.
C8_HalfOpenRange ==
    Analyzed => \A q \in Quantities :
        /\ (q.value < q.min \/ q.value >= q.max) => Len(Raised(q.types)) >= 1
        /\ (q.min < q.value /\ q.value < q.max) => Len(Raised(q.types)) = 0

\* C8 (amended): a quantity below min or above max raises at least one alert
\* whose alertType names that quantity; a quantity in the closed range
\* [min, max], the maximum itself included, raises no threshold alert for it.
C8_ClosedRange ==
    Analyzed => \A q \in Quantities :
        /\ (q.value < q.min \/ q.value > q.max) => Len(Raised(q.types)) >= 1
        /\ (q.min <= q.value /\ q.value <= q.max) => Len(Raised(q.types)) = 0

\* An event analyzed with its speed exactly at the maximum and its temperature
\* above the maximum.
C8_Witness ==
    /\ Analyzed
    /\ analyzed.ConveyorSpeed = thresholds.ConveyorSpeedMax
    /\ analyzed.Temperature > thresholds.TemperatureMax
    /\ Len(raised) > 0

\* A quantity is out of range as the detector compares it.
OutOfRange(q) == q.value < q.min \/ q.value > q.max

\* C9 (as stated): each out-of-range quantity raises exactly one threshold
\* alert, of severity high for speed and for temperature in either direction
\* and medium for the angle.
C9_SeverityHighBothWays ==
    Analyzed => \A q \in Quantities : OutOfRange(q) =>
        /\ Len(Raised(q.types)) = 1
        /\ Raised(q.types)[1].Severity = IF q.name = "angle" THEN "medium" ELSE "high"

\* C9 (amended): each out-of-range quantity raises exactly one threshold
\* alert; its severity is high for a speed violation in either direction and
\* for a temperature above the maximum, and medium for a temperature below the
\* minimum and for an angle violation.
C9_SeverityByDirection ==
    Analyzed => \A q \in Quantities : OutOfRange(q) =>
        /\ Len(Raised(q.types)) = 1
        /\ Raised(q.types)[1].Severity =
              IF q.name = "speed" THEN "high"
              ELSE IF q.name = "temperature" /\ q.value > q.max THEN "high"
              ELSE "medium"

\* An event analyzed with speed and temperature below their minimum and the
\* angle above its maximum: three threshold alerts.
C9_Witness ==
    /\ Analyzed
    /\ analyzed.ConveyorSpeed < thresholds.ConveyorSpeedMin
    /\ analyzed.Temperature < thresholds.TemperatureMin
    /\ analyzed.RobotArmAngle > thresholds.RobotAngleMax
    /\ Len(raised) >= 3

\* The alerts raised by the status check, told by the format of their message.
StatusAlerts ==
    SelectSeq(raised, LAMBDA a :
        a.Message[1] \in {"Machine fault", "Machine fault detected", "Warning condition"})

\* C10: status fault raises exactly one status alert, of severity high, with
\* the event's eventType as alertType and, when the auxiliary data hold a
\* description string, that string in its message; status warning raises
\* exactly one status alert of severity medium; status ok raises none.
C10_StatusAlerts ==
    Analyzed =>
        /\ analyzed.Status = "fault" =>
              /\ Len(StatusAlerts) = 1
              /\ StatusAlerts[1].Severity = "high"
              /\ StatusAlerts[1].AlertType = analyzed.EventType
              /\ (analyzed.Description.present /\ analyzed.Description.isString)
                    => StatusAlerts[1].Message
                          = <<"Machine fault", analyzed.Description.text>>
        /\ analyzed.Status = "warning" =>
              /\ Len(StatusAlerts) = 1
              /\ StatusAlerts[1].Severity = "medium"
        /\ analyzed.Status = "ok" => Len(StatusAlerts) = 0

\* A fault event with a description string has been analyzed.
C10_Witness ==
    /\ Analyzed
    /\ analyzed.Status = "fault"
    /\ analyzed.Description.present /\ analyzed.Description.isString
    /\ Len(StatusAlerts) = 1

\* ------------------------------------------------------------------ claims: trend and pattern

\* The place of an alert in the order of the checks.
Rank(a) ==
    IF a.AlertType \in SpeedTypes THEN 1
    ELSE IF a.AlertType \in TemperatureTypes THEN 2
    ELSE IF a.AlertType \in AngleTypes THEN 3
    ELSE IF a.AlertType = "rapid_temperature_change" THEN 5
    ELSE IF a.AlertType = "speed_instability" THEN 6
    ELSE IF a.AlertType = "repeated_faults" THEN 7
    ELSE 4

\* C11: the alerts of one AnalyzeEvent call are emitted in the order speed,
\* temperature, angle, status, rapid_temperature_change, speed_instability,
\* repeated_faults, at most one of each.
C11_AlertOrder ==
    \A i, j \in 1..Len(raised) : i < j => Rank(raised[i]) < Rank(raised[j])

\* One call has raised an alert of every kind.
C11_Witness == Analyzed /\ {Rank(raised[i]) : i \in 1..Len(raised)} = 1..7

\* The window of the analyzed event's machine, after the call.
WindowNow == GetEvents(slidingWindow[analyzed.MachineID])

\* The n most recent events of the window of the analyzed machine, or all of
\* them when it holds fewer.
Newest(n) ==
    IF Len(WindowNow) > n
    THEN SubSeq(WindowNow, Len(WindowNow) - n + 1, Len(WindowNow))
    ELSE WindowNow

\* Temperature and time from the 5th-newest event to the newest.
TempChange == WindowNow[Len(WindowNow)].Temperature
                 - WindowNow[Len(WindowNow) - 4].Temperature
TimeSpan == WindowNow[Len(WindowNow)].Timestamp
                 - WindowNow[Len(WindowNow) - 4].Timestamp

\* TempChange / TimeSpan is above +2.0 or below -2.0, for a TimeSpan of either
\* sign (a quotient by 0 is taken as neither).
RateBeyondTwo ==
    \/ TimeSpan > 0 /\ (TempChange > 2 * TimeSpan \/ TempChange < -(2 * TimeSpan))
    \/ TimeSpan < 0 /\ (TempChange < 2 * TimeSpan \/ TempChange > -(2 * TimeSpan))

\* C12 (as stated): rapid_temperature_change is raised exactly when the window
\* holds at least 5 events and the temperature difference of the newest and the
\* 5th-newest event divided by their timestamp difference is beyond +-2.0.
C12_RateOfEitherSign ==
    Analyzed =>
        (Len(Raised({"rapid_temperature_change"})) = 1
            <=> (Len(WindowNow) >= 5 /\ RateBeyondTwo))

\* C12 (amended): rapid_temperature_change is raised, once and with severity
\* medium, exactly when the window holds at least 5 events, the timestamp of
\* the newest is later than that of the 5th-newest, and the temperature
\* difference divided by that time is beyond +-2.0; a rise from 20 to 35 over
\* 2 seconds raises it, over 60 seconds does not, and fewer than 5 events or a
\* time that is zero or negative never do.
C12_RateOverPositiveTime ==
    Analyzed =>
        LET alerts == Raised({"rapid_temperature_change"})
            rapid == /\ Len(WindowNow) >= 5
                     /\ TimeSpan > 0
                     /\ (TempChange > 2 * TimeSpan \/ TempChange < -(2 * TimeSpan))
        IN  /\ rapid => (Len(alerts) = 1 /\ alerts[1].Severity = "medium")
            /\ ~rapid => Len(alerts) = 0
            /\ Len(WindowNow) < 5 => Len(alerts) = 0
            /\ (Len(WindowNow) >= 5 /\ TimeSpan <= 0) => Len(alerts) = 0
            /\ (Len(WindowNow) >= 5 /\ TempChange = 15 /\ TimeSpan = 2) => Len(alerts) = 1
            /\ (Len(WindowNow) >= 5 /\ TempChange = 15 /\ TimeSpan = 60) => Len(alerts) = 0

\* The sixth event of a machine is 15 degrees above the second and 2 seconds
\* after it, and the alert is raised.
C12_Witness ==
    /\ Analyzed /\ Len(WindowNow) = 6
    /\ TempChange = 15 /\ TimeSpan = 2
    /\ WindowNow[1].Temperature = 35
    /\ Len(Raised({"rapid_temperature_change"})) = 1

\* C13 (as stated): the speed_instability outcome is that of the last 5 events
\* of the window alone, whatever the older events are.
C13_LastFiveDecide ==
    Analyzed =>
        (Len(Raised({"speed_instability"})) = 1 <=> detectSpeedInstability(Newest(5)))

\* C13 (amended): the speed_instability outcome is that of the last
\* min(10, size) events of the window, at least 5 of them: windows that agree
\* on these events yield the same outcome, whatever the events older than the
\* 10th-newest are.
C13_LastTenDecide ==
    Analyzed =>
        (Len(Raised({"speed_instability"})) = 1
            <=> (Len(WindowNow) >= 5 /\ detectSpeedInstability(Newest(10))))

\* An 11th event is analyzed: the alert is raised although the last 5 speeds
\* are all the same, and the oldest differs from the rest.
C13_Witness ==
    /\ Analyzed /\ Len(WindowNow) = 11
    /\ Len(Raised({"speed_instability"})) = 1
    /\ \A i \in 7..11 : WindowNow[i].ConveyorSpeed = WindowNow[11].ConveyorSpeed
    /\ WindowNow[1].ConveyorSpeed # WindowNow[2].ConveyorSpeed

\* The faults among the most recent min(20, size) events of that window.
RecentFaults ==
    LET size == Len(WindowNow)
        from == IF size > 20 THEN size - 19 ELSE 1
    IN  Cardinality({i \in from..size : WindowNow[i].Status = "fault"})

\* C14: a call raises exactly one repeated_faults alert, of severity high, when
\* the window holds at least 10 events and at least 3 of its most recent
\* min(20, size) events are faults, and none otherwise; after 20 events with
\* exactly 3 faults it is raised, with exactly 2 it is not.
C14_RepeatedFaults ==
    Analyzed =>
        LET alerts == Raised({"repeated_faults"})
        IN  /\ (Len(WindowNow) >= 10 /\ RecentFaults >= 3)
                  => (Len(alerts) = 1 /\ alerts[1].Severity = "high")
            /\ (Len(WindowNow) < 10 \/ RecentFaults < 3) => Len(alerts) = 0
            /\ (Len(WindowNow) = 20 /\ HeldFaults = 3) => Len(alerts) = 1
            /\ (Len(WindowNow) = 20 /\ HeldFaults = 2) => Len(alerts) = 0

\* The 20th analysis of a machine with exactly 3 faults so far, the first of
\* them at the very start, has raised the alert.
C14_Witness ==
    /\ Analyzed /\ Len(WindowNow) = 20 /\ HeldFaults = 3
    /\ WindowNow[1].Status = "fault"
    /\ Len(Raised({"repeated_faults"})) = 1

\* ------------------------------------------------------------------ claims: sliding window

\* The n most recently added events, oldest first, or all of them when fewer
\* were added.
LastAdded(n) ==
    IF Len(added) > n THEN SubSeq(added, Len(added) - n + 1, Len(added)) ELSE added

\* The smaller of two numbers.
Min(a, b) == IF a < b THEN a ELSE b

\* C15: after k Add calls on a window of capacity c, GetEvents returns exactly
\* min(k, c) events, the most recently added ones, oldest first; never more
\* than c.
C15_SnapshotIsLastAdded ==
    /\ Len(GetEvents(ring)) = Min(Len(added), ring.maxSize)
    /\ Len(GetEvents(ring)) <= ring.maxSize
    /\ GetEvents(ring) = LastAdded(ring.maxSize)

\* More events were added than the window holds, and the next slot to write
\* is in the middle of the array.
C15_Witness ==
    /\ ring.maxSize >= 2 /\ Len(added) > ring.maxSize
    /\ ring.position # 0
    /\ Len(GetEvents(ring)) = ring.maxSize

\* C16: no later Add changes the length or an element of a sequence GetEvents
\* returned earlier, whether the window was full or not when it was returned.
C16_SnapshotNeverChanges ==
    slice # NoSlice => ReadSlice(slice, ring) = sliceSeen

\* C17: GetRecentEvents(n) returns exactly the min(n, size) most recently
\* added events, oldest of them first, for every n >= 0 and every window state.
C17_TailIsLastAdded ==
    recent # NoRecent =>
        /\ Len(recent.events) = Min(recent.n, Len(GetEvents(ring)))
        /\ recent.events = LastAdded(Min(recent.n, ring.maxSize))

\* GetRecentEvents was asked for fewer events than a full, wrapped window holds.
C17_Witness ==
    /\ recent # NoRecent /\ recent.n > 0 /\ recent.n < ring.maxSize
    /\ ring.full /\ ring.position # 0
    /\ Len(recent.events) = recent.n

\* ------------------------------------------------------------------ claims: thresholds API

\* C18: the thresholds visible through GetThresholds have max > min for
\* conveyor speed, temperature and robot arm angle, after any sequence of
\* accepted and rejected updates.
C18_MaxAboveMin ==
    /\ GetThresholds.ConveyorSpeedMax > GetThresholds.ConveyorSpeedMin
    /\ GetThresholds.TemperatureMax > GetThresholds.TemperatureMin
    /\ GetThresholds.RobotAngleMax > GetThresholds.RobotAngleMin

\* C19: with no UpdateThresholds since the latest GetThresholds call, a
\* second call returns what that call returned, whatever AnalyzeEvent and
\* GetMachineStats calls came between.
C19_GetThresholdsTwice ==
    (gotThresholds # NoThresholds /\ ~updatedSince) => GetThresholds = gotThresholds

\* Thresholds other than the defaults were read, and an event was analyzed
\* and the statistics of its machine read since, with no update between.
C19_Witness ==
    /\ gotThresholds # NoThresholds /\ gotThresholds # DefaultThresholds
    /\ ~updatedSince
    /\ Analyzed /\ stats # NoStats

\* ------------------------------------------------------------------ claims: mailbox bound

\* C20: the number of queued messages in each subscriber's mailbox is at most
\* its configured bound, under any interleaving of welcome notices,
\* broadcasts, pong replies and the write pump.
C20_MailboxBound == \A c \in Clients : Len(send[c]) <= chanCap

\* A mailbox is full and holds a welcome notice, a pong reply and a published
\* message, after its write pump has run.
C20_Witness ==
    \E c \in Clients :
        /\ Len(send[c]) = chanCap /\ drained[c]
        /\ {send[c][i].type : i \in 1..Len(send[c])} \cap {"pong"} # {}
        /\ \E i \in 1..Len(send[c]) : send[c][i].from \in Callers

\* C21: every connection is given, when it registers, an id that no other
\* connection of the process has or had, also when two connections are made
\* within the same second.
C21_UniqueIds ==
    \A c \in Clients : \A d \in Clients \ {c} :
        id[c] # NoID /\ id[d] # NoID => id[c] # id[d]

\* C22: the first message ever placed in the mailbox of a newly registered
\* connection is the connection notice of the hub: no event, alert, statistics
\* or pong message is placed there before it, whatever the interleaving of
\* Run, the publishers and the read pump of the connection.
C22_WelcomeFirst ==
    [][\A c \in Clients :
          (~drained[c] /\ send[c] = <<>> /\ send'[c] # <<>>)
              => send'[c][1] = Welcome(c)]_vars

\* The rules an event has to meet: machine id and event type not empty, status
\* one of ok, warning and fault, speed in [0, 10] m/s, temperature in
\* [-50, 200] C, angle in [0, 360] deg.
MeetsRules(e) ==
    /\ e.MachineID # "" /\ e.EventType # ""
    /\ e.Status \in {"ok", "warning", "fault"}
    /\ e.ConveyorSpeed \in 0..100
    /\ e.Temperature \in -50..200
    /\ e.RobotArmAngle \in 0..360

\* C23: a message that does not decode or that breaks a rule never puts an
\* event on the event channel and is not taken up again: every event on the
\* event channel meets all the rules, the message processMessage has just
\* refused is not on it, and no message is on it twice.
C23_OnlyValidEvents ==
    /\ \A i \in 1..Len(eventChannel) : MeetsRules(eventChannel[i])
    /\ (lastMsg # NoMessage /\ ~(lastMsg.decodes /\ MeetsRules(lastMsg.event)))
          => \A i \in 1..Len(eventChannel) :
                eventChannel[i].Timestamp # lastMsg.offset
    /\ \A i \in 1..Len(eventChannel) : \A j \in 1..Len(eventChannel) :
          i < j => eventChannel[i].Timestamp < eventChannel[j].Timestamp

\* An event that breaks a rule has just been refused and reported while an
\* earlier event waits on the event channel.
C23_Witness ==
    /\ lastMsg.decodes /\ ~MeetsRules(lastMsg.event)
    /\ eventChannel # <<>>
    /\ errorChannel # <<>> /\ errorChannel[Len(errorChannel)] = "invalid"

\* C24: every message that decodes and meets the rules is handed on: when
\* ReadMessage returns it, processMessage places its event at the back of the
\* event channel, however far the driver loop is behind.
C24_ValidHandedOver ==
    [][(delivered' = delivered + 1 /\ lastMsg'.decodes
            /\ MeetsRules(lastMsg'.event))
          => eventChannel' = Append(eventChannel, lastMsg'.event)]_vars

\* The events held in the window of machine m, oldest first.
WindowOf(m) == GetEvents(slidingWindow[m])

\* C25: for every machine, the events the driver loop processes are processed
\* in the order the broker delivered them: the window of the machine holds
\* them by rising offset, and an event waiting on the channel was delivered
\* after every event already processed.
C25_DeliveryOrder ==
    \A m \in DOMAIN slidingWindow :
        /\ \A i \in 1..Len(WindowOf(m)) : \A j \in 1..Len(WindowOf(m)) :
              i < j => WindowOf(m)[i].Timestamp < WindowOf(m)[j].Timestamp
        /\ \A i \in 1..Len(WindowOf(m)) : \A k \in 1..Len(eventChannel) :
              WindowOf(m)[i].Timestamp < eventChannel[k].Timestamp

\* The driver loop has processed two events of one machine, and the broker
\* delivered a message in between that was not processed.
C25_Witness ==
    \E m \in DOMAIN slidingWindow :
        /\ Len(WindowOf(m)) = 2
        /\ WindowOf(m)[2].Timestamp = WindowOf(m)[1].Timestamp + 2

\* C26: after Stop is called on a started consumer the ingestion loop
\* terminates in the end and the event channel and the error channel are
\* closed, so that a reader waiting on either of them sees the closure.
C26_StopClosesChannels ==
    (consumerClosed /\ cnsPc # "new") ~> (cnsPc = "done" /\ chClosed)

\* C27: once the event channel is closed and empty the driver loop exits: no
\* iteration of the loop finds a closed channel and comes round to the select
\* again.
C27_DriverExits ==
    [][(chClosed /\ drvPc = "recv") => nSpins' = nSpins]_vars

\* C28: on shutdown every event the driver loop has read from the event
\* channel finishes its persistence, analysis and broadcast steps before the
\* process ends: the process never ends with a read event partly processed.
C28_ExitAfterEventDone ==
    mainPc = "exited" => drvPc = "recv"

Disconnected(c) ==
    /\ c \notin clients
    /\ closed[c]
    /\ clPc[c] = "gone"
    /\ wpPc[c] = "done"

\* C30: a connection whose peer stops answering the pings, or whose read or
\* write fails, is disconnected in the end: it leaves the registry, its
\* mailbox is closed and its two pumps return, whether or not anything is
\* being published.
C30_BrokenConnectionLeaves ==
    \A c \in MailboxClients : connLost[c] ~> Disconnected(c)

\* The connection broke while it was registered, with a message waiting in
\* its mailbox and a broadcast on its way through Run, and it is over now.
C30_Witness ==
    \E c \in MailboxClients :
        /\ Disconnected(c)
        /\ connLost[c]
        /\ send[c] # <<>>
        /\ TotalPub = MaxPub

\* ------------------------------------------------------------------ claims: errors

\* ReadMessage has just returned a broker error that is not a timeout.
BrokerErrorStep ==
    cnsPc = "read" /\ cnsPc' # "read" /\ delivered' = delivered
        /\ lastMsg'.offset = -3

\* C31 (as stated): a broker error during consumption is put on the error
\* channel and does not stop the consumer, which ends only after Stop.
C31_ErrorAlwaysReported ==
    [][/\ BrokerErrorStep =>
             /\ errorChannel' = Append(errorChannel, "consumer")
             /\ cnsPc' = "select" /\ ~chClosed'
       /\ (cnsPc' = "done" => consumerClosed')]_vars

\* C31 (amended): a broker error during consumption is put on the error
\* channel when the channel has room and is only logged when it is full; in
\* both cases the loop goes back to its select with both channels open; a
\* valid message read afterwards is forwarded when the event channel has
\* room; and the ingestion goroutine ends only after Stop was called.
C31_ErrorDoesNotStop ==
    [][/\ BrokerErrorStep =>
             /\ errorChannel' = IF Len(errorChannel) < ErrorChannelCap
                                THEN Append(errorChannel, "consumer")
                                ELSE errorChannel
             /\ cnsPc' = "select" /\ ~chClosed'
             /\ UNCHANGED <<eventChannel, delivered, stopChannel>>
       /\ (delivered' = delivered + 1 /\ lastMsg'.decodes
              /\ MeetsRules(lastMsg'.event)
              /\ Len(eventChannel) < EventChannelCap)
             => eventChannel' = Append(eventChannel, lastMsg'.event)
       /\ (cnsPc' = "done" => consumerClosed')]_vars

\* A broker error was reported, and the valid message read after it is on the
\* event channel; Stop has not been called.
C31_Witness ==
    /\ \E i \in 1..Len(errorChannel) : errorChannel[i] = "consumer"
    /\ lastMsg.decodes /\ MeetsRules(lastMsg.event)
    /\ eventChannel # <<>> /\ eventChannel[Len(eventChannel)] = lastMsg.event
    /\ ~consumerClosed

\* ------------------------------------------------------------------ claims: AnalyzeEvent

\* The window of the machine of the analyzed event.
AnalyzedWindow == slidingWindow[analyzed.MachineID]

\* C32: AnalyzeEvent adds the event to the window of its machine before any
\* check runs: the tails the trend check (10 events) and the pattern check
\* (20 events) examine end with the event in hand, and the alerts of the two
\* checks are those of the window that holds it.
C32_ChecksSeeCurrentEvent ==
    Analyzed =>
        LET trendTail == GetRecentEvents(AnalyzedWindow, 10)
            patternTail == GetRecentEvents(AnalyzedWindow, 20)
        IN  /\ trendTail # <<>> /\ trendTail[Len(trendTail)] = analyzed
            /\ patternTail # <<>> /\ patternTail[Len(patternTail)] = analyzed
            /\ raised = detectThresholdViolations(thresholds, analyzed)
                            \o detectTrendAnomalies(analyzed, AnalyzedWindow)
                            \o detectPatternAnomalies(analyzed, AnalyzedWindow)

\* The event in hand is the third fault of a window of ten events or more,
\* and the repeated-faults alert was raised for it.
C32_Witness ==
    /\ Analyzed /\ analyzed.Status = "fault"
    /\ Len(WindowNow) >= 10 /\ RecentFaults = 3
    /\ Len(Raised({"repeated_faults"})) = 1

\* ------------------------------------------------------------------ claims: locks

\* The AnalyzeEvent call in hand has made its three threshold comparisons.
Compared == Len(used) = 3

\* C33: all threshold comparisons of one AnalyzeEvent call (speed, temperature,
\* angle) read the same thresholds, whatever UpdateThresholds calls are made
\* around it: the alerts of the three comparisons are those of one thresholds
\* value.
C33_NoTornThresholds ==
    /\ \A i, j \in 1..Len(used) : used[i] = used[j]
    /\ adStage = "rest" =>
          raised = speedCheck(used[1], analyzed)
                      \o temperatureCheck(used[1], analyzed)
                      \o angleCheck(used[1], analyzed)
    /\ (adStage = "none" /\ Compared) =>
          SubSeq(raised, 1, Len(detectThresholdViolations(used[1], analyzed)))
              = detectThresholdViolations(used[1], analyzed)

\* A call that ran on updated thresholds, raised alerts, and was followed by
\* another update.
C33_Witness ==
    /\ adStage = "none" /\ Compared
    /\ used[1] # DefaultThresholds
    /\ thresholds # used[1]
    /\ Len(raised) >= 2

\* Run is inside the Lock/Unlock of h.mutex only within its register and
\* unregister cases, which it enters from its select.
UnderWriteLock == hubPc = "select"

\* C34: the registry is changed only while the write lock of h.mutex is held,
\* so no removal from it runs while GetClientCount holds the read lock.
C34_RegistryChangeExclusive ==
    [][clients' # clients => (UnderWriteLock /\ ~counting)]_vars

\* ------------------------------------------------------------------ claims: windows

\* The machines that have a window.
Machines == DOMAIN slidingWindow

\* An AnalyzeEvent call is made in this step: Add changes the window of its machine.
WindowStep == slidingWindow' # slidingWindow

\* C35: AnalyzeEvent for machine m creates the window of m on the first event
\* for m and never again, and changes only that window: the other windows and
\* the thresholds are as before, no window is removed, and every window holds
\* events, all of its own machine.
C35_OnlyOwnWindow ==
    /\ [](\A m \in Machines :
            /\ GetEvents(slidingWindow[m]) # <<>>
            /\ \A i \in 1..Len(GetEvents(slidingWindow[m])) :
                  GetEvents(slidingWindow[m])[i].MachineID = m)
    /\ [][WindowStep =>
            LET m == analyzed'.MachineID
            IN  /\ DOMAIN slidingWindow' = Machines \cup {m}
                /\ \A k \in Machines \ {m} : slidingWindow'[k] = slidingWindow[k]
                /\ thresholds' = thresholds
                /\ GetEvents(slidingWindow'[m]) =
                      IF m \in Machines
                      THEN Append(GetEvents(slidingWindow[m]), analyzed')
                      ELSE <<analyzed'>>]_vars

\* Two machines have windows, and the second event of one of them went to the
\* window its first event made.
C35_Witness ==
    /\ Machines = {"m1", "m2"}
    /\ Len(GetEvents(slidingWindow["m1"])) = 2
    /\ analyzed.MachineID = "m1"

\* ------------------------------------------------------------------ claims: mailboxes

\* C36: a registered subscriber is in the registry exactly while its mailbox is
\* open, and each mailbox is closed at most once: a mailbox is closed only in
\* the step that takes its open subscriber out of the registry, whichever of
\* the three paths takes it out; a closed mailbox stays closed and out of the
\* registry; and the unregister request of a subscriber already dropped
\* changes neither the registry nor a mailbox.
C36_ClosedOnce ==
    /\ [](\A c \in Clients :
            clPc[c] \in {"running", "gone"} => (c \in clients <=> ~closed[c]))
    /\ [][\A c \in Clients :
            /\ (c \in clients /\ c \notin clients') <=> (~closed[c] /\ closed'[c])
            /\ closed[c] => (closed'[c] /\ c \notin clients')
            /\ (clPc[c] = "running" /\ clPc'[c] = "gone" /\ c \notin clients)
                    => UNCHANGED <<clients, closed, send>>]_vars

\* A subscriber dropped with a full mailbox, by the register case or by the
\* broadcast case, whose unregister request Run has served since.
C36_Witness ==
    /\ closed["c1"] /\ "c1" \notin clients
    /\ Len(send["c1"]) = chanCap
    /\ clPc["c1"] = "gone"

\* The read pump of c sends on the mailbox of c after Run has closed it: the
\* send panics.
SendOnClosed(c) == closed[c] /\ clPc[c] = "running" /\ ~Crashed /\ Crashed'

\* C37: no message is ever sent on a mailbox that has been closed: the pong of
\* the read pump is never sent after Run has dropped the subscriber and closed
\* its mailbox.
C37_NoSendOnClosed == [][\A c \in Clients : ~SendOnClosed(c)]_vars

\* ------------------------------------------------------------------ claims: alert callback

\* The InsertAlert attempts among the steps of the driver loop.
IsInsertAlert(o) == o.op = "InsertAlert"

InsertOps == SelectSeq(drvOps, IsInsertAlert)

\* C39: an alert whose InsertAlert fails is handed to BroadcastAlert all the
\* same, and the remaining alerts of the event are still raised, given to
\* InsertAlert and handed to BroadcastAlert: every InsertAlert attempt, failed
\* or not, is followed by the publish call for its alert, and an event that is
\* done has had one attempt per alert raised, in the order raised.
C39_FailedInsertStillBroadcast ==
    /\ \A i \in 1..Len(drvOps) :
          drvOps[i].op = "InsertAlert"
              => /\ i < Len(drvOps)
                 /\ drvOps[i + 1].op = "BroadcastAlert"
                 /\ drvOps[i + 1].what = drvOps[i].what
    /\ drvPc = "callback" =>
          /\ Len(InsertOps) + Len(pending) = Len(raised)
          /\ pending = SubSeq(raised, Len(InsertOps) + 1, Len(raised))
    /\ (EventDone /\ drvOps[1].ok) =>
          /\ Len(InsertOps) = Len(raised)
          /\ \A i \in 1..Len(raised) : InsertOps[i].what = raised[i].AlertType

\* An event with two alerts is done: InsertAlert failed for the first alert
\* and succeeded for the second.
C39_Witness ==
    /\ EventDone /\ drvOps[1].ok
    /\ Len(raised) = 2
    /\ ~InsertOps[1].ok /\ InsertOps[2].ok
    /\ Len(PublishOps(drvOps)) = 3

\* ------------------------------------------------------------------ claims: refused updates

\* The thresholds handlers answered StatusBadRequest because of the ranges of
\* the body: a negative speed minimum, a speed maximum not above the minimum,
\* or a temperature maximum not above the minimum.
Refused(reply) ==
    reply \in {"Invalid conveyor speed thresholds", "Invalid temperature thresholds"}

\* C40: a threshold update the handler refuses leaves the thresholds of the
\* detector as they were, so GetThresholds returns after it what it returned
\* before: the step that answers with a refusal does not change the
\* thresholds, and while refusals are all that followed a GetThresholds call,
\* the detector still holds what that call returned.
C40_RefusedUpdateKeepsThresholds ==
    /\ [][(replied' # replied /\ Refused(replied'))
            => (thresholds' = thresholds /\ GetThresholds' = GetThresholds
                /\ updatedSince' = updatedSince)]_vars
    /\ []((Refused(replied) /\ gotThresholds # NoThresholds /\ ~updatedSince)
            => GetThresholds = gotThresholds)

\* Thresholds other than the defaults were read, and the update that followed
\* the read was refused.
C40_Witness ==
    /\ Refused(replied)
    /\ gotThresholds # NoThresholds /\ ~updatedSince
    /\ gotThresholds # DefaultThresholds
    /\ thresholds = gotThresholds

====
